---- MODULE Spec2Model ----
(***************************************************************************)
(* Baseline computation engine of compute-baseline: the status deriver     *)
(* (keystoneDateToStatus and the date-range helpers), the keystone finder,  *)
(* the collater, the initial-support finder, the support-statement          *)
(* resolver, ancestor expansion and the Compat context with its caches.     *)
(*                                                                         *)
(* Strings that the code parses, slices or concatenates (dates, versions)  *)
(* are sequences of one-character strings.  The character U+2264 (the      *)
(* "less than or equal" sign that marks a ranged value) is written LE.     *)
(***************************************************************************)
EXTENDS Integers, Sequences, FiniteSets, TLC

VARIABLES
    dateSpec,      \* keystoneDateToStatus argument: None or Some(date string)
    cutoffDate,    \* the clock: the cutoff date of the latest call
    discouraged,   \* keystoneDateToStatus argument
    status,        \* None, or Some(value returned by the latest call)
    prevStatus,    \* None, or Some(value returned by the call before it)
    compat,        \* the Compat contexts by name: data and the two caches
    last           \* None, or Some(the latest public operation and its result)

statusVars == <<dateSpec, cutoffDate, discouraged, status, prevStatus>>
compatVars == <<compat, last>>
vars == <<dateSpec, cutoffDate, discouraged, status, prevStatus, compat, last>>

\* A value that may be null or undefined in the code is None or Some(v).
None == <<>>
Some(v) == <<v>>
LE == "<="

\* ------------------------------------------------------------------ bounds
FirstYear == 2021
YearSpan == 3

\* --------------------------------------------------------- plain dates
\* Temporal.PlainDate of the ISO calendar: [y, m, d].
IsLeapYear(y) == (y % 4 = 0 /\ y % 100 # 0) \/ y % 400 = 0

DaysInMonth(y, m) ==
    IF m = 2 THEN (IF IsLeapYear(y) THEN 29 ELSE 28)
    ELSE IF m \in {4, 6, 9, 11} THEN 30 ELSE 31

IsValidDate(dt) == dt.m \in 1..12 /\ dt.d >= 1 /\ dt.d <= DaysInMonth(dt.y, dt.m)

\* Temporal.PlainDate.compare(a, b): -1, 0 or 1.
PlainDateCompare(a, b) ==
    IF a.y # b.y THEN (IF a.y < b.y THEN -1 ELSE 1)
    ELSE IF a.m # b.m THEN (IF a.m < b.m THEN -1 ELSE 1)
    ELSE IF a.d # b.d THEN (IF a.d < b.d THEN -1 ELSE 1)
    ELSE 0

Min(a, b) == IF a <= b THEN a ELSE b

\* PlainDate.prototype.add({months: n}) with the default overflow "constrain":
\* the month is advanced on the calendar and the day is clamped to the length
\* of the resulting month.
PlainDateAddMonths(dt, n) ==
    LET idx == dt.y * 12 + (dt.m - 1) + n
        y2 == idx \div 12
        m2 == (idx % 12) + 1
    IN [y |-> y2, m |-> m2, d |-> Min(dt.d, DaysInMonth(y2, m2))]

\* ---------------------------------------------------------------- strings
DigitChar == <<"0", "1", "2", "3", "4", "5", "6", "7", "8", "9">>

DigitVal(c) ==
    CASE c = "0" -> 0 [] c = "1" -> 1 [] c = "2" -> 2 [] c = "3" -> 3 [] c = "4" -> 4
      [] c = "5" -> 5 [] c = "6" -> 6 [] c = "7" -> 7 [] c = "8" -> 8 [] c = "9" -> 9

Pad2(n) == <<DigitChar[((n \div 10) % 10) + 1], DigitChar[(n % 10) + 1]>>

Pad4(n) == <<DigitChar[((n \div 1000) % 10) + 1], DigitChar[((n \div 100) % 10) + 1]>> \o Pad2(n % 100)

\* PlainDate.prototype.toString(): "YYYY-MM-DD" for years 0..9999.
PlainDateToString(dt) == Pad4(dt.y) \o <<"-">> \o Pad2(dt.m) \o <<"-">> \o Pad2(dt.d)

\* Temporal.PlainDate.from(string) for an ISO "YYYY-MM-DD" string.
PlainDateFrom(s) ==
    [y |-> DigitVal(s[1]) * 1000 + DigitVal(s[2]) * 100 + DigitVal(s[3]) * 10 + DigitVal(s[4]),
     m |-> DigitVal(s[6]) * 10 + DigitVal(s[7]),
     d |-> DigitVal(s[9]) * 10 + DigitVal(s[10])]

\* String.prototype.slice(0, n)
Slice0(s, n) == SubSeq(s, 1, Min(n, Len(s)))

\* String.prototype.startsWith(LE)
StartsWithLE(s) == Len(s) >= 1 /\ s[1] = LE

\* -------------------------------------------------------------- date-utils
BASELINE_LOW_TO_HIGH_DURATION == 30

\* Mutant of toHighDate: the day overflow of Date.prototype.setMonth, which
\* rolls a day that does not exist over into the next month.
toHighDate_Rollover(lowDate) ==
    LET idx == lowDate.y * 12 + (lowDate.m - 1) + BASELINE_LOW_TO_HIGH_DURATION
        y2 == idx \div 12
        m2 == (idx % 12) + 1
    IN IF lowDate.d <= DaysInMonth(y2, m2)
       THEN [y |-> y2, m |-> m2, d |-> lowDate.d]
       ELSE [y |-> (idx + 1) \div 12, m |-> ((idx + 1) % 12) + 1, d |-> lowDate.d - DaysInMonth(y2, m2)]

toHighDate(lowDate) == PlainDateAddMonths(lowDate, BASELINE_LOW_TO_HIGH_DURATION)

toRangedDateString(date, ranged) ==
    (IF ranged THEN <<LE>> ELSE <<>>) \o Slice0(PlainDateToString(date), 10)

\* Returns the pair <<date, ranged>>.
parseRangedDateString(spec) ==
    LET ranged == StartsWithLE(spec)
    IN <<PlainDateFrom(IF ranged THEN Tail(spec) ELSE spec), ranged>>

\* ---------------------------------------------------- keystoneDateToStatus
\* Mutant: a discouraged feature keeps its low date.
keystoneDateToStatus_KeepsLowDate(spec, cutoff, disc) ==
    IF spec = None
    THEN [baseline |-> "false", baseline_low_date |-> None, baseline_high_date |-> None]
    ELSE [baseline |-> IF disc THEN "false" ELSE "low",
          baseline_low_date |-> Some(toRangedDateString(parseRangedDateString(spec[1])[1],
                                                        parseRangedDateString(spec[1])[2])),
          baseline_high_date |-> None]

\* Mutant: the cutoff has to be strictly after the possible high date.
keystoneDateToStatus_StrictCutoff(spec, cutoff, disc) ==
    IF spec = None \/ disc
    THEN [baseline |-> "false", baseline_low_date |-> None, baseline_high_date |-> None]
    ELSE LET parsed == parseRangedDateString(spec[1])
             possibleHighDate == toHighDate(parsed[1])
         IN IF PlainDateCompare(possibleHighDate, cutoff) < 0
            THEN [baseline |-> "high",
                  baseline_low_date |-> Some(toRangedDateString(parsed[1], parsed[2])),
                  baseline_high_date |-> Some(toRangedDateString(possibleHighDate, parsed[2]))]
            ELSE [baseline |-> "low",
                  baseline_low_date |-> Some(toRangedDateString(parsed[1], parsed[2])),
                  baseline_high_date |-> None]

\* Mutant: the arguments of the date comparison are swapped.
keystoneDateToStatus_SwappedCompare(spec, cutoff, disc) ==
    IF spec = None \/ disc
    THEN [baseline |-> "false", baseline_low_date |-> None, baseline_high_date |-> None]
    ELSE LET parsed == parseRangedDateString(spec[1])
             possibleHighDate == toHighDate(parsed[1])
         IN IF PlainDateCompare(cutoff, possibleHighDate) <= 0
            THEN [baseline |-> "high",
                  baseline_low_date |-> Some(toRangedDateString(parsed[1], parsed[2])),
                  baseline_high_date |-> Some(toRangedDateString(possibleHighDate, parsed[2]))]
            ELSE [baseline |-> "low",
                  baseline_low_date |-> Some(toRangedDateString(parsed[1], parsed[2])),
                  baseline_high_date |-> None]

keystoneDateToStatus(spec, cutoff, disc) ==
    IF spec = None \/ disc
    THEN [baseline |-> "false", baseline_low_date |-> None, baseline_high_date |-> None]
    ELSE LET parsed == parseRangedDateString(spec[1])
             date == parsed[1]
             ranged == parsed[2]
             possibleHighDate == toHighDate(date)
         IN IF PlainDateCompare(possibleHighDate, cutoff) <= 0
            THEN [baseline |-> "high",
                  baseline_low_date |-> Some(toRangedDateString(date, ranged)),
                  baseline_high_date |-> Some(toRangedDateString(possibleHighDate, ranged))]
            ELSE [baseline |-> "low",
                  baseline_low_date |-> Some(toRangedDateString(date, ranged)),
                  baseline_high_date |-> None]

\* ----------------------------------------------------------- error values
\* A result of an operation that may throw: Ok(v) or Err(kind).
Ok(v) == [err |-> "", val |-> <<v>>]
Err(e) == [err |-> e, val |-> <<>>]
IsOk(r) == r.err = ""
ValOf(r) == r.val[1]

\* --------------------------------------------------------------- versions
\* String.prototype.replaceAll(LE, "")
RECURSIVE ReplaceAllLE(_)
ReplaceAllLE(s) ==
    IF s = <<>> THEN <<>>
    ELSE IF Head(s) = LE THEN ReplaceAllLE(Tail(s))
    ELSE <<Head(s)>> \o ReplaceAllLE(Tail(s))

isRangedVersion(v) == v # None /\ StartsWithLE(v[1])

isFixedVersion(v) == v # None /\ ~StartsWithLE(v[1])

\* The dot-separated numeric segments of a version string.
RECURSIVE VersionSegments(_, _)
VersionSegments(s, acc) ==
    IF s = <<>> THEN <<acc>>
    ELSE IF Head(s) = "." THEN <<acc>> \o VersionSegments(Tail(s), 0)
    ELSE VersionSegments(Tail(s), acc * 10 + DigitVal(Head(s)))

SegmentAt(segs, i) == IF i <= Len(segs) THEN segs[i] ELSE 0

RECURSIVE CompareSegments(_, _, _)
CompareSegments(a, b, i) ==
    IF i > Len(a) /\ i > Len(b) THEN 0
    ELSE IF SegmentAt(a, i) > SegmentAt(b, i) THEN 1
    ELSE IF SegmentAt(a, i) < SegmentAt(b, i) THEN -1
    ELSE CompareSegments(a, b, i + 1)

\* compareVersions of the compare-versions package on dotted numeric versions.
compareVersions(a, b) == CompareSegments(VersionSegments(a, 0), VersionSegments(b, 0), 1)

\* compareVersions of fmb.ts. Its components: the characters that are neither
\* digits nor dots are dropped (sanitize), the rest is split on "." and each
\* part read by parseInt; a part without a digit is NaN, here None.
RECURSIVE parsedComponents(_, _)
parsedComponents(v, acc) ==
    IF v = <<>> THEN <<acc>>
    ELSE IF Head(v) = "." THEN <<acc>> \o parsedComponents(Tail(v), None)
    ELSE IF \E i \in 1..Len(DigitChar) : DigitChar[i] = Head(v)
    THEN parsedComponents(Tail(v), Some((IF acc = None THEN 0 ELSE acc[1]) * 10 + DigitVal(Head(v))))
    ELSE parsedComponents(Tail(v), acc)

\* as[i] ?? 0: zero past the end of the array, the component otherwise.
componentAt(cs, i) == IF i < Len(cs) THEN cs[i + 1] ELSE Some(0)

\* The loop from index i on; a comparison with NaN is false both ways.
RECURSIVE compareComponents(_, _, _)
compareComponents(as, bs, i) ==
    IF i >= Len(as) /\ i >= Len(bs) THEN 0
    ELSE IF componentAt(as, i) # None /\ componentAt(bs, i) # None
            /\ componentAt(as, i)[1] > componentAt(bs, i)[1] THEN 1
    ELSE IF componentAt(as, i) # None /\ componentAt(bs, i) # None
            /\ componentAt(as, i)[1] < componentAt(bs, i)[1] THEN -1
    ELSE compareComponents(as, bs, i + 1)

compareVersionsSanitized(a, b) ==
    compareComponents(parsedComponents(a, None), parsedComponents(b, None), 0)

\* ---------------------------------------------------------------- Release
\* new Release(browser, version, data, index); browser is the browser's id.
Release(browserId, version, data, index) ==
    [browser |-> browserId, version |-> version, data |-> data, releaseIndex |-> index]

\* get date(): null when the release has no release_date.
ReleaseDate(r) ==
    IF r.data.release_date = None THEN None
    ELSE Some(PlainDateFrom(r.data.release_date[1]))

\* Release.prototype.compare
ReleaseCompare(r, otherRelease) ==
    IF otherRelease.browser # r.browser THEN Err("BrowserReleaseMismatch")
    ELSE Ok(r.releaseIndex - otherRelease.releaseIndex)

\* Release.prototype.inRange(start, end); end is None or Some(release).
ReleaseInRange_InclusiveEnd(r, start, end) ==
    LET onOrAfterStart == ValOf(ReleaseCompare(r, start)) >= 0
    IN IF end # None
       THEN onOrAfterStart /\ ValOf(ReleaseCompare(r, end[1])) <= 0
       ELSE onOrAfterStart

ReleaseInRange(r, start, end) ==
    LET onOrAfterStart == ValOf(ReleaseCompare(r, start)) >= 0
    IN IF end # None
       THEN onOrAfterStart /\ ValOf(ReleaseCompare(r, end[1])) < 0
       ELSE onOrAfterStart

\* ---------------------------------------------------------------- Browser
\* Array.prototype.sort with compareVersions on the [version, data] entries
\* (a stable insertion of each entry after the entries not greater than it).
RECURSIVE InsertEntry(_, _)
InsertEntry(sorted, e) ==
    IF sorted = <<>> THEN <<e>>
    ELSE IF compareVersions(sorted[Len(sorted)][1], e[1]) <= 0 THEN Append(sorted, e)
    ELSE Append(InsertEntry(SubSeq(sorted, 1, Len(sorted) - 1), e), sorted[Len(sorted)])

RECURSIVE SortEntries(_)
SortEntries_Unsorted(entries) == entries

SortEntries(entries) ==
    IF entries = <<>> THEN <<>>
    ELSE InsertEntry(SortEntries(SubSeq(entries, 1, Len(entries) - 1)), entries[Len(entries)])

PreviewVersion == <<"p", "r", "e", "v", "i", "e", "w">>

\* new Browser(id, data): data.releases is the sequence Object.entries gives.
Browser(id, data) ==
    LET sortedReleaseData == SortEntries(data.releases)
        releases == [i \in 1..Len(sortedReleaseData) |->
                        Release(id, sortedReleaseData[i][1], sortedReleaseData[i][2], i - 1)]
    IN [id |-> id,
        data |-> data,
        releases |-> IF data.preview_name # None
                     THEN Append(releases, Release(id, PreviewVersion,
                                                   [status |-> "nightly", release_date |-> None],
                                                   Len(releases)))
                     ELSE releases]

\* Browser.prototype.current
BrowserCurrent_Latest(b) == Ok(b.releases[Len(b.releases)])

BrowserCurrent(b) ==
    IF \E i \in 1..Len(b.releases) : b.releases[i].data.status = "current"
    THEN Ok(b.releases[CHOOSE i \in 1..Len(b.releases) :
                          /\ b.releases[i].data.status = "current"
                          /\ \A j \in 1..(i - 1) : b.releases[j].data.status # "current"])
    ELSE Err("NoCurrentRelease")

\* Browser.prototype.version
BrowserVersion(b, versionString) ==
    IF \E i \in 1..Len(b.releases) : b.releases[i].version = versionString
    THEN Ok(b.releases[CHOOSE i \in 1..Len(b.releases) :
                          /\ b.releases[i].version = versionString
                          /\ \A j \in 1..(i - 1) : b.releases[j].version # versionString])
    ELSE Err("UnknownVersion")

\* ------------------------------------------------------- SupportStatement
\* statementToQualifications: the names of the qualifications present.
statementToQualifications_IgnoresFlags(st) ==
    (IF st.prefix # None THEN {"prefix"} ELSE {})
    \cup (IF st.alternative_name # None THEN {"alternative_name"} ELSE {})
    \cup (IF st.partial_implementation THEN {"partial_implementation"} ELSE {})

statementToQualifications(st) ==
    (IF st.prefix # None THEN {"prefix"} ELSE {})
    \cup (IF st.alternative_name # None THEN {"alternative_name"} ELSE {})
    \cup (IF Len(st.flags) > 0 THEN {"flags"} ELSE {})
    \cup (IF st.partial_implementation THEN {"partial_implementation"} ELSE {})

Unsupported == [supported |-> "false", qualifications |-> {}]
UnknownSupport == [supported |-> "null", qualifications |-> {}]

\* The three cases of supportedInDetails once the versions the statement
\* names are looked up in the browser.
\* version_added and version_removed are both ranged.
rangedToRanged(release, asSupported, supportedIn, unsupportedFrom) ==
    IF ~IsOk(supportedIn) THEN Err(supportedIn.err)
    ELSE IF ~IsOk(unsupportedFrom) THEN Err(unsupportedFrom.err)
    ELSE IF release = ValOf(supportedIn) THEN Ok(asSupported)
    ELSE IF ReleaseInRange(release, ValOf(unsupportedFrom), None) THEN Ok(Unsupported)
    ELSE Ok(UnknownSupport)

\* version_added is fixed and version_removed is ranged.
fixedToRanged_UnknownBeforeStart(release, initial, asSupported, supportedIn, unsupportedFrom) ==
    rangedToRanged(release, asSupported, supportedIn, unsupportedFrom)

fixedToRanged(release, initial, asSupported, supportedIn, unsupportedFrom) ==
    IF ~IsOk(supportedIn) THEN Err(supportedIn.err)
    ELSE IF ~IsOk(unsupportedFrom) THEN Err(unsupportedFrom.err)
    ELSE IF release = ValOf(supportedIn) THEN Ok(asSupported)
    ELSE IF \/ ReleaseInRange(release, ValOf(unsupportedFrom), None)
            \/ ReleaseInRange(release, initial, Some(ValOf(supportedIn)))
         THEN Ok(Unsupported)
    ELSE Ok(UnknownSupport)

\* The remaining case: end is Ok(None) when there is no version_removed.
startToEnd_UnknownBeforeStart(release, initial, asSupported, startRanged, start, end) ==
    IF ~IsOk(start) THEN Err(start.err)
    ELSE IF ~IsOk(end) THEN Err(end.err)
    ELSE IF ReleaseInRange(release, ValOf(start), ValOf(end)) THEN Ok(asSupported)
    ELSE IF ReleaseInRange(release, initial, Some(ValOf(start))) THEN Ok(UnknownSupport)
    ELSE Ok(Unsupported)

startToEnd(release, initial, asSupported, startRanged, start, end) ==
    IF ~IsOk(start) THEN Err(start.err)
    ELSE IF ~IsOk(end) THEN Err(end.err)
    ELSE IF ReleaseInRange(release, ValOf(start), ValOf(end)) THEN Ok(asSupported)
    ELSE IF startRanged /\ ReleaseInRange(release, initial, Some(ValOf(start)))
         THEN Ok(UnknownSupport)
    ELSE Ok(Unsupported)

\* The release a version_removed names, as the optional end of a range.
EndRelease(r) == IF IsOk(r) THEN Ok(Some(ValOf(r))) ELSE r

\* SupportStatement.prototype.supportedInDetails(release) of a statement st of
\* browser b.  version_added None stands for false.
supportedInDetails(st, b, release) ==
    IF release.browser # b.id THEN Err("BrowserReleaseMismatch")
    ELSE IF st.version_added = None THEN Ok(Unsupported)
    ELSE IF isRangedVersion(st.version_added) /\ isRangedVersion(st.version_removed)
    THEN rangedToRanged(release,
                        [supported |-> "true", qualifications |-> statementToQualifications(st)],
                        BrowserVersion(b, ReplaceAllLE(st.version_added[1])),
                        BrowserVersion(b, ReplaceAllLE(st.version_removed[1])))
    ELSE IF isFixedVersion(st.version_added) /\ isRangedVersion(st.version_removed)
    THEN fixedToRanged(release, b.releases[1],
                       [supported |-> "true", qualifications |-> statementToQualifications(st)],
                       BrowserVersion(b, st.version_added[1]),
                       BrowserVersion(b, ReplaceAllLE(st.version_removed[1])))
    ELSE startToEnd(release, b.releases[1],
                    [supported |-> "true", qualifications |-> statementToQualifications(st)],
                    isRangedVersion(st.version_added),
                    BrowserVersion(b, ReplaceAllLE(st.version_added[1])),
                    IF st.version_removed # None
                    THEN EndRelease(BrowserVersion(b, st.version_removed[1]))
                    ELSE Ok(None))

\* SupportStatement.prototype.supportedBy() of a statement st of browser b:
\* the releases in the range of the statement, each with the qualifications.
supportedBy_IgnoresEnd(st, b) ==
    IF st.version_added = None THEN Ok(<<>>)
    ELSE LET start == BrowserVersion(b, ReplaceAllLE(st.version_added[1]))
         IN IF ~IsOk(start) THEN Err(start.err)
            ELSE LET releases == SelectSeq(b.releases,
                                           LAMBDA rel : ReleaseInRange(rel, ValOf(start), None))
                 IN Ok([k \in 1..Len(releases) |->
                          [release |-> releases[k],
                           qualifications |-> statementToQualifications(st)]])

supportedBy(st, b) ==
    IF st.version_added = None THEN Ok(<<>>)
    ELSE LET start == BrowserVersion(b, IF StartsWithLE(st.version_added[1])
                                        THEN Tail(st.version_added[1])
                                        ELSE st.version_added[1])
             end == IF st.version_removed # None
                    THEN EndRelease(BrowserVersion(b, st.version_removed[1]))
                    ELSE Ok(None)
         IN IF ~IsOk(start) THEN Err(start.err)
            ELSE IF ~IsOk(end) THEN Err(end.err)
            ELSE LET releases == SelectSeq(b.releases,
                                           LAMBDA rel : ReleaseInRange(rel, ValOf(start), ValOf(end)))
                 IN Ok([k \in 1..Len(releases) |->
                          [release |-> releases[k],
                           qualifications |-> statementToQualifications(st)]])

\* ---------------------------------------------------------------- Feature
\* new Feature(id, featureData)
Feature(id, featureData) == [id |-> id, data |-> featureData]

\* get deprecated(): this.data.__compat?.status?.deprecated
FeatureDeprecated(f) ==
    IF f.data.compat = None THEN None ELSE f.data.compat[1].deprecated

\* Feature.prototype.rawSupportStatements: the entry of the browser is one
\* statement <<"one", st>> or an array <<"many", sts>>.
rawSupportStatements(f, b) ==
    IF f.data.compat = None THEN Err("MissingCompatRecord")
    ELSE LET support == f.data.compat[1].support
         IN IF b.id \notin DOMAIN support THEN Err("MissingBrowserSupport")
            ELSE IF support[b.id][1] = "many" THEN Ok(support[b.id][2])
            ELSE Ok(<<support[b.id][2]>>)

\* The loop of Feature.prototype.supportedIn over the statements from the
\* i-th on: "true", "false" or "null".  supportedInStep is the body of the
\* loop, given the details of the i-th statement.
RECURSIVE supportedInLoop(_, _, _, _, _)
supportedInStep(sts, b, release, i, unknown, supported) ==
    IF ~IsOk(supported) THEN Err(supported.err)
    ELSE IF ValOf(supported).supported = "true" /\ ValOf(supported).qualifications = {}
         THEN Ok("true")
    ELSE supportedInLoop(sts, b, release, i + 1, unknown \/ ValOf(supported).supported = "null")

supportedInLoop(sts, b, release, i, unknown) ==
    IF i > Len(sts) THEN Ok(IF unknown THEN "null" ELSE "false")
    ELSE supportedInStep(sts, b, release, i, unknown, supportedInDetails(sts[i], b, release))

supportedInStatements(raw, b, release) ==
    IF ~IsOk(raw) THEN Err(raw.err)
    ELSE supportedInLoop(ValOf(raw), b, release, 1, FALSE)

\* Feature.prototype.supportedIn(release), release being one of b's releases.
supportedIn(f, b, release) == supportedInStatements(rawSupportStatements(f, b), b, release)

\* ------------------------------------------------------------- support.js
\* The loop over the releases of one browser, from index down to 0.
\* supportWalkStep is the body of the loop, given what supportedIn returned
\* for the release.
RECURSIVE supportWalk(_, _, _, _)
supportWalkStep_NeverRanged(f, b, index, lastInitial, release, supported) ==
    IF ~IsOk(supported) THEN Err(supported.err)
    ELSE IF ValOf(supported) \in {"false", "null"}
         THEN Ok([lastInitial |-> lastInitial, lastInitialBoundary |-> <<>>])
    ELSE supportWalk(f, b, index - 1, Some(release))

supportWalkStep_SkipsUnsupported(f, b, index, lastInitial, release, supported) ==
    IF ~IsOk(supported) THEN Err(supported.err)
    ELSE IF lastInitial = None
         THEN IF ValOf(supported) \in {"false", "null"}
              THEN Ok([lastInitial |-> None, lastInitialBoundary |-> <<>>])
              ELSE supportWalk(f, b, index - 1, Some(release))
    ELSE IF ValOf(supported) = "null"
         THEN Ok([lastInitial |-> lastInitial, lastInitialBoundary |-> <<LE>>])
    ELSE IF ValOf(supported) = "false"
         THEN supportWalk(f, b, index - 1, lastInitial)
    ELSE supportWalk(f, b, index - 1, Some(release))

supportWalkStep(f, b, index, lastInitial, release, supported) ==
    IF ~IsOk(supported) THEN Err(supported.err)
    ELSE IF lastInitial = None
         THEN IF ValOf(supported) \in {"false", "null"}
              THEN Ok([lastInitial |-> None, lastInitialBoundary |-> <<>>])
              ELSE supportWalk(f, b, index - 1, Some(release))
    ELSE IF ValOf(supported) = "null"
         THEN Ok([lastInitial |-> lastInitial, lastInitialBoundary |-> <<LE>>])
    ELSE IF ValOf(supported) = "false"
         THEN Ok([lastInitial |-> lastInitial, lastInitialBoundary |-> <<>>])
    ELSE supportWalk(f, b, index - 1, Some(release))

supportWalk(f, b, index, lastInitial) ==
    IF index < 0 THEN Ok([lastInitial |-> lastInitial, lastInitialBoundary |-> <<>>])
    ELSE supportWalkStep(f, b, index, lastInitial, b.releases[index + 1],
                         supportedIn(f, b, b.releases[index + 1]))

\* What the loop leaves for the browser: None (undefined) or
\* Some(InitialSupport).
InitialSupportOf_TextWithoutBoundary(w) ==
    IF ~IsOk(w) THEN Err(w.err)
    ELSE IF ValOf(w).lastInitial = None THEN Ok(None)
    ELSE Ok(Some([release |-> ValOf(w).lastInitial[1],
                  ranged |-> ValOf(w).lastInitialBoundary = <<LE>>,
                  text |-> ValOf(w).lastInitial[1].version]))

InitialSupportOf(w) ==
    IF ~IsOk(w) THEN Err(w.err)
    ELSE IF ValOf(w).lastInitial = None THEN Ok(None)
    ELSE Ok(Some([release |-> ValOf(w).lastInitial[1],
                  ranged |-> ValOf(w).lastInitialBoundary = <<LE>>,
                  text |-> ValOf(w).lastInitialBoundary \o ValOf(w).lastInitial[1].version]))

supportFromCurrent(f, b, curr) ==
    IF ~IsOk(curr) THEN Err(curr.err)
    ELSE InitialSupportOf(supportWalk(f, b, ValOf(curr).releaseIndex, None))

\* The body of the loop over the browsers.
supportOfBrowser(f, b) == supportFromCurrent(f, b, BrowserCurrent(b))

\* The map built from the results rs of the browsers bs, or the first error.
supportMap(bs, rs) ==
    IF \E i \in 1..Len(bs) : ~IsOk(rs[i])
    THEN Err(rs[CHOOSE i \in 1..Len(bs) :
                   ~IsOk(rs[i]) /\ \A j \in 1..(i - 1) : IsOk(rs[j])].err)
    ELSE Ok([id \in {bs[i].id : i \in 1..Len(bs)} |->
                ValOf(rs[CHOOSE i \in 1..Len(bs) : bs[i].id = id])])

\* support(feature, browsers): a map from browser id to None or
\* Some(InitialSupport); bs is the sequence of browsers.
support(f, bs) == supportMap(bs, [i \in 1..Len(bs) |-> supportOfBrowser(f, bs[i])])

\* compareInitialSupport(i1, i2)
compareInitialSupport_TiesEqual(i1, i2) == ValOf(ReleaseCompare(i1.release, i2.release))

compareInitialSupport(i1, i2) ==
    LET c == ValOf(ReleaseCompare(i1.release, i2.release))
    IN IF c = 0
       THEN (IF i1.ranged /\ ~i2.ranged THEN -1
             ELSE IF ~i1.ranged /\ i2.ranged THEN 1
             ELSE 0)
       ELSE c

\* ------------------------------------------------------------------ query
\* The BCD object of a context is [timestamp, browsers, features]: browsers
\* maps browser ids to browser data, features maps the dotted paths that
\* exist (as sequences of their components) to nodes [compat], compat being
\* None or Some(__compat record).
PathExists(path, data) ==
    \/ path = <<"browsers">>
    \/ (Len(path) = 2 /\ path[1] = "browsers" /\ path[2] \in DOMAIN data.browsers)
    \/ path \in DOMAIN data.features

QueryValue(path, data) ==
    IF path = <<"browsers">>
    THEN [kind |-> "browsers", compat |-> None, browser |-> None]
    ELSE IF path[1] = "browsers"
    THEN [kind |-> "browser", compat |-> None, browser |-> Some(data.browsers[path[2]])]
    ELSE [kind |-> "node", compat |-> data.features[path].compat, browser |-> None]

\* query(path, data): fails at the first component that is not there.
query(path, data) ==
    IF \A i \in 1..Len(path) : PathExists(SubSeq(path, 1, i), data)
    THEN Ok(QueryValue(path, data))
    ELSE Err("InvalidPath")

\* isFeatureData(o): indexable and not the "browsers" object.
isFeatureData(o) == o.kind # "browsers"

\* ----------------------------------------------------------------- Compat
\* A context is [data, browsers, features]; browsers and features are its
\* caches, maps from ids to the objects built on first access.
NewCompat(data) == [data |-> data, browsers |-> <<>>, features |-> <<>>]

\* An object built on first access, stored in the cache of the context.
cachedBrowser_Evicts(id, cx, b) == [r |-> Ok(b), cx |-> [cx EXCEPT !.browsers = (id :> b)]]

cachedBrowser(id, cx, b) == [r |-> Ok(b), cx |-> [cx EXCEPT !.browsers = (id :> b) @@ @]]

cachedFeature(id, cx, f) == [r |-> Ok(f), cx |-> [cx EXCEPT !.features = (id :> f) @@ @]]

browserFromData(id, cx, data) ==
    IF ~IsOk(data) THEN [r |-> Err(data.err), cx |-> cx]
    ELSE cachedBrowser(id, cx, Browser(id, ValOf(data).browser[1]))

featureFromData_CachesFailure(id, cx, data) ==
    IF ~IsOk(data) THEN [r |-> Err(data.err), cx |-> cx]
    ELSE IF ~isFeatureData(ValOf(data))
         THEN [r |-> Err("NotAFeature"), cx |-> cachedFeature(id, cx, Feature(id, ValOf(data))).cx]
    ELSE cachedFeature(id, cx, Feature(id, ValOf(data)))

featureFromData(id, cx, data) ==
    IF ~IsOk(data) THEN [r |-> Err(data.err), cx |-> cx]
    ELSE IF ~isFeatureData(ValOf(data)) THEN [r |-> Err("NotAFeature"), cx |-> cx]
    ELSE cachedFeature(id, cx, Feature(id, ValOf(data)))

\* browser(id, compat): the result and the context afterwards.
browser(id, cx) ==
    IF id \in DOMAIN cx.browsers
    THEN [r |-> Ok(cx.browsers[id]), cx |-> cx]
    ELSE browserFromData(id, cx, query(<<"browsers", id>>, cx.data))

\* feature(id, compat): the result and the context afterwards.
feature_AnyCached(id, cx) ==
    IF DOMAIN cx.features # {}
    THEN [r |-> Ok(cx.features[CHOOSE k \in DOMAIN cx.features : TRUE]), cx |-> cx]
    ELSE featureFromData(id, cx, query(id, cx.data))

feature(id, cx) ==
    IF id \in DOMAIN cx.features
    THEN [r |-> Ok(cx.features[id]), cx |-> cx]
    ELSE featureFromData(id, cx, query(id, cx.data))

\* --------------------------------------------------------- core browser set
identifiers ==
    <<"chrome", "chrome_android", "edge", "firefox", "firefox_android", "safari", "safari_ios">>

\* browsers(compat): identifiers.map((b) => compat.browser(b)), from the i-th
\* on; browsersStep continues with what compat.browser returned.
RECURSIVE browsersFrom(_, _, _)
browsersStep(i, acc, l) ==
    IF ~IsOk(l.r) THEN [r |-> Err(l.r.err), cx |-> l.cx]
    ELSE browsersFrom(i + 1, l.cx, Append(acc, ValOf(l.r)))

browsersFrom(i, cx, acc) ==
    IF i > Len(identifiers) THEN [r |-> Ok(acc), cx |-> cx]
    ELSE browsersStep(i, acc, browser(identifiers[i], cx))

browsers(cx) == browsersFrom(1, cx, <<>>)

\* ------------------------------------------------------- baseline/index.js
DefaultCompat == "default"

\* The context whose feature records calculate(compatKey, compat) reads: the
\* call feature(compatKey) leaves the compat parameter to its default value.
FeatureContextOf(c) == DefaultCompat

\* compat.data.__meta.timestamp as an instant, in UTC, as a plain date.
CutoffDateOf(data) == PlainDateFrom(data.timestamp.date)

\* withAncestors(compatKey, compat), from the prefix of i components on;
\* withAncestorsStep continues with what query returned for the prefix.
RECURSIVE withAncestorsFrom(_, _, _, _)
withAncestorsStep(compatKey, data, i, ancestors, q) ==
    IF ~IsOk(q) THEN Err(q.err)
    ELSE withAncestorsFrom(compatKey, data, i + 1,
             IF ValOf(q).compat # None
             THEN Append(ancestors, SubSeq(compatKey, 1, i))
             ELSE ancestors)

withAncestorsFrom(compatKey, data, i, ancestors) ==
    IF i > Len(compatKey) THEN Ok(ancestors)
    ELSE withAncestorsStep(compatKey, data, i, ancestors, query(SubSeq(compatKey, 1, i), data))

withAncestors_FromCategory(compatKey, data) == withAncestorsFrom(compatKey, data, 1, <<>>)

withAncestors(compatKey, data) == withAncestorsFrom(compatKey, data, 2, <<>>)

\* compatKeys.flatMap((key) => withAncestors(key, compat)), from the i-th key on.
RECURSIVE flatMapWithAncestors(_, _, _, _)
flatMapWithAncestorsStep(compatKeys, data, i, acc, a) ==
    IF ~IsOk(a) THEN Err(a.err)
    ELSE flatMapWithAncestors(compatKeys, data, i + 1, acc \o ValOf(a))

flatMapWithAncestors(compatKeys, data, i, acc) ==
    IF i > Len(compatKeys) THEN Ok(acc)
    ELSE flatMapWithAncestorsStep(compatKeys, data, i, acc, withAncestors(compatKeys[i], data))

\* The contexts after the context named c has become cx.
Stored(cxs, c, cx) == [cxs EXCEPT ![c] = cx]

\* calculate, given the support map of the feature: the returned object.
calculateStatus(f, sup, cxs) ==
    IF ~IsOk(sup) THEN [r |-> Err(sup.err), cxs |-> cxs]
    ELSE [r |-> Ok([discouraged |-> IF FeatureDeprecated(f) = None
                                    THEN FALSE
                                    ELSE FeatureDeprecated(f)[1],
                    support |-> ValOf(sup)]),
          cxs |-> cxs]

\* calculate, given the feature and what browsers(compat) returned.
calculateWithBrowsers(f, cxs, c, bl) ==
    IF ~IsOk(bl.r) THEN [r |-> Err(bl.r.err), cxs |-> Stored(cxs, c, bl.cx)]
    ELSE calculateStatus(f, support(f, ValOf(bl.r)), Stored(cxs, c, bl.cx))

calculateWithContexts(f, cxs, c) == calculateWithBrowsers(f, cxs, c, browsers(cxs[c]))

\* calculate, given what feature(compatKey) returned.
calculateWithFeature(cxs, c, fl) ==
    IF ~IsOk(fl.r) THEN [r |-> Err(fl.r.err), cxs |-> Stored(cxs, FeatureContextOf(c), fl.cx)]
    ELSE calculateWithContexts(ValOf(fl.r), Stored(cxs, FeatureContextOf(c), fl.cx), c)

\* calculate(compatKey, compat): cxs maps context names to contexts, c names
\* the context passed in.  The result and the contexts afterwards.
calculate(compatKey, cxs, c) ==
    calculateWithFeature(cxs, c, feature(compatKey, cxs[FeatureContextOf(c)]))

\* keys.map((key) => calculate(key, compat)), from the i-th key on.
RECURSIVE mapCalculate(_, _, _, _, _)
mapCalculateStep(keys, c, i, statuses, st) ==
    IF ~IsOk(st.r) THEN [r |-> Err(st.r.err), cxs |-> st.cxs]
    ELSE mapCalculate(keys, st.cxs, c, i + 1, Append(statuses, ValOf(st.r)))

mapCalculate(keys, cxs, c, i, statuses) ==
    IF i > Len(keys) THEN [r |-> Ok(statuses), cxs |-> cxs]
    ELSE mapCalculateStep(keys, c, i, statuses, calculate(keys[i], cxs, c))

\* The browsers of the maps in supports and, for a browser, the values the
\* maps hold for it, in the order of the maps.
CollatedBrowsers(supports) == UNION {DOMAIN supports[i] : i \in 1..Len(supports)}

Indices(seq) == [i \in 1..Len(seq) |-> i]

CollatedValues(supports, id) ==
    LET holding == SelectSeq(Indices(supports), LAMBDA i : id \in DOMAIN supports[i])
    IN [k \in 1..Len(holding) |-> supports[holding[k]][id]]

\* initialSupports.sort(compareInitialSupport).at(-1) for a non-empty array:
\* the sort is stable, so its last element is the element that none exceeds
\* and that every later element is below.
SortedLastInitialSupport_Unsorted(seq) == seq[Len(seq)]

SortedLastInitialSupport(seq) ==
    seq[CHOOSE k \in 1..Len(seq) :
            /\ \A j \in 1..Len(seq) : compareInitialSupport(seq[j], seq[k]) <= 0
            /\ \A j \in (k + 1)..Len(seq) : compareInitialSupport(seq[j], seq[k]) < 0]

\* The entry of collateSupport for the values one browser has in the maps.
collatedEntry(initialSupports) ==
    IF \E k \in 1..Len(initialSupports) : initialSupports[k] = None
    THEN None
    ELSE Some(SortedLastInitialSupport([k \in 1..Len(initialSupports) |-> initialSupports[k][1]]))

\* collateSupport(supports)
collateSupport(supports) ==
    [id \in CollatedBrowsers(supports) |-> collatedEntry(CollatedValues(supports, id))]

\* The comparison function of the sort in findKeystoneDate.
compareKeystone_RangedLast(i1, i2) ==
    LET c == PlainDateCompare(ReleaseDate(i1.release)[1], ReleaseDate(i2.release)[1])
    IN IF c = 0
       THEN (IF i1.ranged /\ ~i2.ranged THEN 1
             ELSE IF ~i1.ranged /\ i2.ranged THEN -1
             ELSE 0)
       ELSE c

compareKeystone(i1, i2) ==
    LET c == PlainDateCompare(ReleaseDate(i1.release)[1], ReleaseDate(i2.release)[1])
    IN IF c = 0
       THEN (IF i1.ranged /\ ~i2.ranged THEN -1
             ELSE IF ~i1.ranged /\ i2.ranged THEN 1
             ELSE 0)
       ELSE c

\* The last element of the array sorted in findKeystoneDate, as above.
SortedLastKeystone(seq) ==
    seq[CHOOSE k \in 1..Len(seq) :
            /\ \A j \in 1..Len(seq) : compareKeystone(seq[j], seq[k]) <= 0
            /\ \A j \in (k + 1)..Len(seq) : compareKeystone(seq[j], seq[k]) < 0]

\* The date string of the keystone, with the range prefix of a ranged one.
keystoneDateString(keystone) ==
    IF keystone.ranged
    THEN Some(<<LE>> \o PlainDateToString(ReleaseDate(keystone.release)[1]))
    ELSE Some(PlainDateToString(ReleaseDate(keystone.release)[1]))

\* findKeystoneDate(support): support is a sequence of None or
\* Some(InitialSupport); the result is None or Some(date string).
findKeystoneDate(sup) ==
    IF (\E k \in 1..Len(sup) : sup[k] = None) \/ Len(sup) = 0 THEN None
    ELSE IF \E k \in 1..Len(sup) : ReleaseDate(sup[k][1].release) = None THEN None
    ELSE keystoneDateString(SortedLastKeystone([k \in 1..Len(sup) |-> sup[k][1]]))

\* [...s.support.values()]: the values of a support map in insertion order,
\* the order of the core browser set.
SupportValues(sup) ==
    LET held == SelectSeq(identifiers, LAMBDA id : id \in DOMAIN sup)
    IN [k \in 1..Len(held) |-> sup[held[k]]]

RECURSIVE flatMapSupportValues(_, _)
flatMapSupportValues(statuses, i) ==
    IF i > Len(statuses) THEN <<>>
    ELSE SupportValues(statuses[i].support) \o flatMapSupportValues(statuses, i + 1)

\* The list findKeystoneDate is given in computeBaseline:
\* statuses.flatMap((s) => [...s.support.values()]).
KeystoneInput(statuses) == flatMapSupportValues(statuses, 1)

\* The object computeBaseline returns, given the status st that
\* keystoneDateToStatus derived.
baselineObject(st, disc, sup) ==
    [baseline |-> st.baseline,
     baseline_low_date |-> st.baseline_low_date,
     baseline_high_date |-> st.baseline_high_date,
     discouraged |-> disc,
     support |-> sup]

\* statuses.some((s) => s.discouraged)
someDiscouraged(statuses) == \E i \in 1..Len(statuses) : statuses[i].discouraged

\* computeBaseline, given the statuses of the keys.
baselineOfStatuses(statuses, cutoff) ==
    baselineObject(keystoneDateToStatus(findKeystoneDate(KeystoneInput(statuses)), cutoff,
                                        someDiscouraged(statuses)),
                   someDiscouraged(statuses),
                   collateSupport([i \in 1..Len(statuses) |-> statuses[i].support]))

computeBaselineOfStatuses(sts, cutoff) ==
    IF ~IsOk(sts.r) THEN [r |-> Err(sts.r.err), cxs |-> sts.cxs]
    ELSE [r |-> Ok(baselineOfStatuses(ValOf(sts.r), cutoff)), cxs |-> sts.cxs]

\* computeBaseline, given the keys to evaluate.
computeBaselineOfKeys(keys, cxs, c) ==
    IF ~IsOk(keys) THEN [r |-> Err(keys.err), cxs |-> cxs]
    ELSE computeBaselineOfStatuses(mapCalculate(ValOf(keys), cxs, c, 1, <<>>),
                                   CutoffDateOf(cxs[c].data))

\* computeBaseline(featureSelector, compat): the result and the contexts
\* afterwards.
computeBaseline(featureSelector, cxs, c) ==
    computeBaselineOfKeys(IF featureSelector.checkAncestors
                          THEN flatMapWithAncestors(featureSelector.compatKeys, cxs[c].data, 1, <<>>)
                          ELSE Ok(featureSelector.compatKeys),
                          cxs, c)

\* jsonify(status) read back by JSON.parse: an object, as a map from its keys.
JsonSupport(sup) ==
    [id \in {x \in DOMAIN sup : sup[x] # None} |-> sup[id][1].text]

jsonify_KeepsNullHighDate(st) ==
    IF st.baseline \in {"high", "low"}
    THEN [baseline |-> st.baseline,
          baseline_low_date |-> st.baseline_low_date,
          baseline_high_date |-> st.baseline_high_date,
          support |-> JsonSupport(st.support)]
    ELSE [baseline |-> st.baseline, support |-> JsonSupport(st.support)]

jsonify(st) ==
    IF st.baseline = "high"
    THEN [baseline |-> st.baseline,
          baseline_low_date |-> st.baseline_low_date,
          baseline_high_date |-> st.baseline_high_date,
          support |-> JsonSupport(st.support)]
    ELSE IF st.baseline = "low"
    THEN [baseline |-> st.baseline,
          baseline_low_date |-> st.baseline_low_date,
          support |-> JsonSupport(st.support)]
    ELSE [baseline |-> st.baseline, support |-> JsonSupport(st.support)]

\* JSON.parse(jsonify(...)) of what computeBaseline returned.
jsonifyResult(cb) ==
    IF ~IsOk(cb.r) THEN [r |-> Err(cb.r.err), cxs |-> cb.cxs]
    ELSE [r |-> Ok(jsonify(ValOf(cb.r))), cxs |-> cb.cxs]

\* getStatus(featureId, compatKey, compat)
getStatus(featureId, compatKey, cxs, c) ==
    jsonifyResult(computeBaseline([compatKeys |-> <<compatKey>>, checkAncestors |-> TRUE], cxs, c))

\* ------------------------------------------------ inputs of the status spec
Years == FirstYear..(FirstYear + YearSpan)

\* First day, the middle and the last four possible days of a month: the days
\* on which adding months does or does not clamp.
DaysOfInterest == {1, 28, 29, 30, 31}

Dates == {dt \in [y : Years, m : 1..12, d : DaysOfInterest] : IsValidDate(dt)}

DateSpecs == {None} \cup {Some(toRangedDateString(dt, r)) : dt \in Dates, r \in BOOLEAN}

\* The day after dt in Dates, or dt itself on the last one.
NextDate(dt) ==
    IF \E e \in DaysOfInterest : e > dt.d /\ e <= DaysInMonth(dt.y, dt.m)
    THEN [dt EXCEPT !.d = CHOOSE e \in DaysOfInterest :
                              /\ e > dt.d /\ e <= DaysInMonth(dt.y, dt.m)
                              /\ \A f \in DaysOfInterest : (f > dt.d) => (e <= f)]
    ELSE IF dt.m < 12 THEN [y |-> dt.y, m |-> dt.m + 1, d |-> 1]
    ELSE IF dt.y + 1 \in Years THEN [y |-> dt.y + 1, m |-> 1, d |-> 1]
    ELSE dt

InitStatus ==
    /\ dateSpec \in DateSpecs
    /\ cutoffDate \in Dates
    /\ discouraged \in BOOLEAN
    /\ status = None
    /\ prevStatus = None
    /\ compat = <<>>
    /\ last = None

\* A caller derives the status from a precomputed keystone date.  The cutoff
\* is a monotone clock: a call is made at the clock value of the latest call
\* or after the clock has ticked.
KeystoneDateToStatus(cutoff) ==
    /\ cutoffDate' = cutoff
    /\ status' = Some(keystoneDateToStatus(dateSpec, cutoff, discouraged))
    /\ prevStatus' = status
    /\ UNCHANGED <<dateSpec, discouraged, compat, last>>

NextStatus == \E cutoff \in {cutoffDate, NextDate(cutoffDate)} : KeystoneDateToStatus(cutoff)

SpecStatus == InitStatus /\ [][NextStatus]_vars

\* ------------------------------------------------- inputs of the main spec
V1 == <<"1">>
V1_5 == <<"1", ".", "5">>
V2 == <<"2">>
V3 == <<"3">>
V9 == <<"9">>

\* The releases of the browser with the given position in the core browser
\* set, in the order Object.entries gives (integer-like keys first): 1 and
\* 1.5 are retired, 2 is current, 3 is a beta without a release date.  Each
\* browser releases some days after the one before it.  Irregular catalogs:
\* 1.5 has no release date ("undated"), 1.5 is dated after 2 ("late"), or on
\* the day of 2 ("sameday").
ReleaseDateString(y, m, d) == Some(PlainDateToString([y |-> y, m |-> m, d |-> d]))

ReleaseEntries(pos, catalog) ==
    <<<<V1, [status |-> "retired", release_date |-> ReleaseDateString(2020, 1, 10 + pos)]>>,
      <<V2, [status |-> "current", release_date |-> ReleaseDateString(2023, 2, 10 + pos)]>>,
      <<V3, [status |-> "beta", release_date |-> None]>>,
      <<V1_5, [status |-> "retired",
               release_date |-> IF catalog = "undated" THEN None
                                ELSE IF catalog = "late" THEN ReleaseDateString(2023, 3, 10 + pos)
                                ELSE IF catalog = "sameday" THEN ReleaseDateString(2023, 2, 10 + pos)
                                ELSE ReleaseDateString(2021, 3, 10 + pos)]>>>>

PositionOf(id) == CHOOSE i \in 1..Len(identifiers) : identifiers[i] = id

CoreBrowsers == {identifiers[i] : i \in 1..Len(identifiers)}

BrowserData(id, catalog) ==
    [name |-> id,
     releases |-> ReleaseEntries(PositionOf(id), catalog),
     preview_name |-> IF id \in {"chrome", "firefox", "safari"} THEN Some("preview") ELSE None]

Statement(va, vr) ==
    [version_added |-> va, version_removed |-> vr, flags |-> <<>>, prefix |-> None,
     alternative_name |-> None, partial_implementation |-> FALSE]

\* The support entries the features of the model are built from.
SupportEntry(name) ==
    IF name = "1" THEN <<"one", Statement(Some(V1), None)>>
    ELSE IF name = "1.5" THEN <<"one", Statement(Some(V1_5), None)>>
    ELSE IF name = "2" THEN <<"one", Statement(Some(V2), None)>>
    ELSE IF name = "le1.5" THEN <<"one", Statement(Some(<<LE>> \o V1_5), None)>>
    ELSE IF name = "3" THEN <<"one", Statement(Some(V3), None)>>
    ELSE IF name = "prefixed" THEN <<"one", [Statement(Some(V1), None) EXCEPT !.prefix = Some("webkit")]>>
    ELSE IF name = "prefixed,2" THEN <<"many", <<[Statement(Some(V1), None) EXCEPT !.prefix = Some("webkit")],
                                                 Statement(Some(V2), None)>>>>
    ELSE IF name = "9" THEN <<"one", Statement(Some(V9), None)>>
    ELSE IF name = "1,9" THEN <<"many", <<Statement(Some(V1), None), Statement(Some(V9), None)>>>>
    ELSE IF name = "2,9" THEN <<"many", <<Statement(Some(V2), None), Statement(Some(V9), None)>>>>
    ELSE <<"one", Statement(None, None)>>

\* A __compat record: every browser has the entry `base` but for the browser
\* `odd`, which has the entry `other`, or no entry when other is "missing".
CompatRecord(base, odd, other, deprecated) ==
    [support |-> [id \in (IF other = "missing" THEN CoreBrowsers \ {odd} ELSE CoreBrowsers) |->
                     SupportEntry(IF id = odd THEN other ELSE base)],
     deprecated |-> deprecated]

KeyApi == <<"api">>
KeyFoo == <<"api", "Foo">>
KeyBar == <<"api", "Foo", "bar">>
KeyNope == <<"api", "Foo", "nope">>

\* The BCD object of a scenario p: the category api, the feature api.Foo and
\* its member api.Foo.bar; either node may lack its __compat record.
DataOf(p) ==
    [timestamp |-> [date |-> PlainDateToString(p.cutoff), hour |-> 12],
     browsers |-> [id \in CoreBrowsers |-> BrowserData(id, IF id = p.odd THEN p.catalog ELSE "regular")],
     features |-> (KeyApi :> [compat |-> None])
                  @@ (KeyFoo :> [compat |-> IF p.foo = "none" THEN None
                                             ELSE Some(CompatRecord(p.foo, p.odd, p.fooOdd, p.fooDeprecated))])
                  @@ (IF p.bar = "absent" THEN <<>>
                      ELSE (KeyBar :> [compat |-> IF p.bar = "none" THEN None
                                                    ELSE Some(CompatRecord(p.bar, p.odd, p.barOdd, p.barDeprecated))]))]

DefaultScenario ==
    [cutoff |-> [y |-> 2023, m |-> 9, d |-> 17], odd |-> "chrome", catalog |-> "regular",
     foo |-> "1", fooOdd |-> "1", fooDeprecated |-> None,
     bar |-> "1", barOdd |-> "1", barDeprecated |-> None]

\* One browser differs from the others in its support of api.Foo.bar.
SupportScenarios ==
    {[DefaultScenario EXCEPT !.cutoff = bc[2], !.odd = o, !.bar = bc[1], !.barOdd = x] :
        bc \in {<<"1.5", [y |-> 2023, m |-> 9, d |-> 14]>>,
                <<"1.5", [y |-> 2023, m |-> 9, d |-> 17]>>,
                <<"1", [y |-> 2023, m |-> 9, d |-> 17]>>},
        o \in {"chrome", "safari_ios"},
        x \in {"1.5", "2", "le1.5", "3", "prefixed", "prefixed,2", "false"}}

\* The ancestor api.Foo and the key api.Foo.bar with and without __compat
\* records and deprecation flags.
AncestorScenarios ==
    {[DefaultScenario EXCEPT !.foo = a, !.fooOdd = a, !.fooDeprecated = ad,
                             !.bar = b, !.barOdd = b, !.barDeprecated = bd] :
        a \in {"none", "1", "2"}, ad \in {None, Some(TRUE)},
        b \in {"absent", "none", "1.5"}, bd \in {None, Some(FALSE), Some(TRUE)}}

\* One browser has an irregular release catalog and the ancestor is supported
\* from another release than the key.
CatalogScenarios ==
    {[DefaultScenario EXCEPT !.odd = o, !.catalog = g,
                             !.foo = a, !.fooOdd = "2", !.bar = "1.5", !.barOdd = bo] :
        o \in {"chrome", "safari_ios"},
        g \in {"undated", "late", "sameday"},
        a \in {"1", "2"}, bo \in {"1.5", "le1.5"}}

\* One browser has no entry in the support data of api.Foo.bar, or an entry
\* with a statement naming a version that is not among its releases.
ErrorScenarios ==
    {[DefaultScenario EXCEPT !.odd = o, !.bar = "1.5", !.barOdd = x] :
        o \in {"chrome", "safari_ios"}, x \in {"missing", "9", "1,9", "2,9"}}

Scenarios == SupportScenarios \cup AncestorScenarios \cup CatalogScenarios \cup ErrorScenarios

\* The scenario of the default context when a caller has built a context of
\* its own, and what that context holds instead.
BaseScenario == [DefaultScenario EXCEPT !.bar = "1.5", !.barOdd = "1.5"]

Changes == {"same", "feature", "deprecated", "unsupported", "missing", "none", "absent", "cutoff",
            "catalog"}

CustomScenario(p, change) ==
    IF change = "feature" THEN [p EXCEPT !.bar = "2", !.barOdd = "2"]
    ELSE IF change = "deprecated" THEN [p EXCEPT !.barDeprecated = Some(TRUE)]
    ELSE IF change = "unsupported" THEN [p EXCEPT !.barOdd = "false"]
    ELSE IF change = "missing" THEN [p EXCEPT !.barOdd = "missing"]
    ELSE IF change = "none" THEN [p EXCEPT !.bar = "none"]
    ELSE IF change = "absent" THEN [p EXCEPT !.bar = "absent"]
    ELSE IF change = "cutoff" THEN [p EXCEPT !.cutoff = [y |-> 2023, m |-> 9, d |-> 14]]
    ELSE IF change = "catalog" THEN [p EXCEPT !.catalog = "undated"]
    ELSE p

\* The name of the context a caller has built, if any; the contexts a caller
\* may pass are the ones in the domain of compat.
CustomCompat == "custom"

KeyLists == {<<KeyFoo>>, <<KeyBar>>, <<KeyNope>>, <<KeyBar, KeyFoo>>}

Init ==
    /\ \/ \E p \in Scenarios : compat = (DefaultCompat :> NewCompat(DataOf(p)))
       \/ \E change \in Changes :
            compat = (DefaultCompat :> NewCompat(DataOf(BaseScenario)))
                     @@ (CustomCompat :> NewCompat(DataOf(CustomScenario(BaseScenario, change))))
    /\ last = None
    /\ dateSpec = None
    /\ cutoffDate = [y |-> FirstYear, m |-> 1, d |-> 1]
    /\ discouraged = FALSE
    /\ status = None
    /\ prevStatus = None

\* The call returns (or throws): the contexts and the outcome are recorded.
Returned(op, compatKeys, checkAncestors, c, out) ==
    /\ compat' = out.cxs
    /\ last' = Some([op |-> op, compatKeys |-> compatKeys, checkAncestors |-> checkAncestors,
                     compat |-> c, result |-> out.r])
    /\ UNCHANGED statusVars

\* A caller computes the Baseline status of a set of compat keys.
ComputeBaseline(compatKeys, checkAncestors, c) ==
    Returned("computeBaseline", compatKeys, checkAncestors, c,
             computeBaseline([compatKeys |-> compatKeys, checkAncestors |-> checkAncestors],
                             compat, c))

\* A caller asks for the serializable status of one compat key.
GetStatus(compatKey, c) ==
    Returned("getStatus", <<compatKey>>, TRUE, c, getStatus("feature-id", compatKey, compat, c))

Next ==
    \/ \E ks \in KeyLists, ca \in BOOLEAN, c \in DOMAIN compat : ComputeBaseline(ks, ca, c)
    \/ \E k \in {KeyFoo, KeyBar, KeyNope}, c \in DOMAIN compat : GetStatus(k, c)

Spec == Init /\ [][Next]_vars

\* ------------------------------------------------- lookups on the contexts
\* Callers look browsers and features up on a context between their calls of
\* computeBaseline; every call records the contexts it started from.
LookupScenarios ==
    {[DefaultScenario EXCEPT !.foo = a, !.fooOdd = a, !.bar = b, !.barOdd = bo] :
        a \in {"1", "2"}, b \in {"1.5", "none"}, bo \in {"1.5", "le1.5"}}

InitLookup ==
    /\ \/ \E p \in LookupScenarios : compat = (DefaultCompat :> NewCompat(DataOf(p)))
       \/ compat = (DefaultCompat :> NewCompat(DataOf(BaseScenario)))
                   @@ (CustomCompat :> NewCompat(DataOf(CustomScenario(BaseScenario, "catalog"))))
    /\ last = None
    /\ dateSpec = None
    /\ cutoffDate = [y |-> FirstYear, m |-> 1, d |-> 1]
    /\ discouraged = FALSE
    /\ status = None
    /\ prevStatus = None

ReturnedAfter(op, id, c, r, cxs) ==
    /\ compat' = cxs
    /\ last' = Some([op |-> op, id |-> id, compat |-> c, before |-> compat, result |-> r])
    /\ UNCHANGED statusVars

LookedUp(op, id, c, l) == ReturnedAfter(op, id, c, l.r, Stored(compat, c, l.cx))

BrowserLookup(id, c) == LookedUp("browser", id, c, browser(id, compat[c]))

FeatureLookup(id, c) == LookedUp("feature", id, c, feature(id, compat[c]))

ComputedAfter(compatKey, c, out) == ReturnedAfter("computeBaseline", compatKey, c, out.r, out.cxs)

ComputeBaselineOfKey(compatKey, c) ==
    ComputedAfter(compatKey, c,
                  computeBaseline([compatKeys |-> <<compatKey>>, checkAncestors |-> FALSE], compat, c))

NextLookup ==
    \/ \E id \in {"chrome", "safari_ios", "opera"}, c \in DOMAIN compat : BrowserLookup(id, c)
    \/ \E id \in {KeyFoo, KeyBar, KeyNope, <<"browsers">>}, c \in DOMAIN compat :
            FeatureLookup(id, c)
    \/ \E k \in {KeyFoo, KeyBar}, c \in DOMAIN compat : ComputeBaselineOfKey(k, c)

SpecLookup == InitLookup /\ [][NextLookup]_vars

\* ------------------------------------- the support of one browser, resolved
\* A feature holds up to MaxStatements support statements for one browser;
\* callers ask for the initial support of the feature in the browser and for
\* the details of one statement in one release.
MaxStatements == 2

\* Releases 1, 1.5, 2 (current), 3 (beta) and the preview release.
SupportBrowser == Browser("chrome", BrowserData("chrome", "regular"))

StatementPool ==
    {Statement(Some(va), vr) :
        va \in {V1, V2, <<LE>> \o V1, <<LE>> \o V1_5, <<LE>> \o V2},
        vr \in {None, Some(V3), Some(<<LE>> \o V2)}}
    \cup {Statement(None, None),
          Statement(Some(V1), Some(V1_5)),
          Statement(Some(<<LE>> \o V2), Some(V1_5)),
          Statement(Some(<<LE>> \o V2), Some(<<LE>> \o V1_5)),
          [Statement(Some(V1), None) EXCEPT !.prefix = Some("webkit")],
          [Statement(Some(V1), None) EXCEPT !.alternative_name = Some("webkitBar")],
          [Statement(Some(V1), None) EXCEPT !.flags = <<"enable-bar">>],
          [Statement(Some(V1), None) EXCEPT !.partial_implementation = TRUE]}

StatementLists ==
    UNION {[1..n -> StatementPool] : n \in 1..MaxStatements}

FeatureOf(sts) ==
    Feature(KeyBar, [compat |-> Some([support |-> ("chrome" :> <<"many", sts>>),
                                      deprecated |-> None])])

InitSupport ==
    /\ \E sts \in StatementLists : last = Some([op |-> "statements", sts |-> sts])
    /\ compat = <<>>
    /\ dateSpec = None
    /\ cutoffDate = [y |-> FirstYear, m |-> 1, d |-> 1]
    /\ discouraged = FALSE
    /\ status = None
    /\ prevStatus = None

\* support(feature, [browser]), the entry of the browser.
Support ==
    /\ last' = Some([op |-> "support", sts |-> last[1].sts,
                     result |-> supportOfBrowser(FeatureOf(last[1].sts), SupportBrowser)])
    /\ UNCHANGED <<compat, dateSpec, cutoffDate, discouraged, status, prevStatus>>

\* statement.supportedInDetails(release) of the i-th statement.
SupportedInDetails(i, n) ==
    /\ i <= Len(last[1].sts)
    /\ last' = Some([op |-> "supportedInDetails", sts |-> last[1].sts,
                     st |-> last[1].sts[i], release |-> SupportBrowser.releases[n],
                     result |-> supportedInDetails(last[1].sts[i], SupportBrowser,
                                                   SupportBrowser.releases[n])])
    /\ UNCHANGED <<compat, dateSpec, cutoffDate, discouraged, status, prevStatus>>

\* feature.supportedIn(release)
SupportedIn(n) ==
    /\ last' = Some([op |-> "supportedIn", sts |-> last[1].sts,
                     release |-> SupportBrowser.releases[n],
                     result |-> supportedIn(FeatureOf(last[1].sts), SupportBrowser,
                                            SupportBrowser.releases[n])])
    /\ UNCHANGED <<compat, dateSpec, cutoffDate, discouraged, status, prevStatus>>

\* statement.supportedBy() of the i-th statement.
SupportedBy(i) ==
    /\ i <= Len(last[1].sts)
    /\ last' = Some([op |-> "supportedBy", sts |-> last[1].sts, st |-> last[1].sts[i],
                     result |-> supportedBy(last[1].sts[i], SupportBrowser)])
    /\ UNCHANGED <<compat, dateSpec, cutoffDate, discouraged, status, prevStatus>>

NextSupport ==
    \/ Support
    \/ \E i \in 1..MaxStatements, n \in 1..Len(SupportBrowser.releases) : SupportedInDetails(i, n)
    \/ \E n \in 1..Len(SupportBrowser.releases) : SupportedIn(n)
    \/ \E i \in 1..MaxStatements : SupportedBy(i)

SpecSupport == InitSupport /\ [][NextSupport]_vars

\* ------------------------------------- the walk of support, step by step
\* The loop of support over the releases of the browser, one iteration at a
\* time: index is the loop variable, examined the indices the iterations have
\* read so far, broke whether an iteration has left the loop.
WalkBegin ==
    /\ last[1].op = "statements"
    /\ IsOk(BrowserCurrent(SupportBrowser))
    /\ last' = Some([op |-> "walk", sts |-> last[1].sts,
                     index |-> ValOf(BrowserCurrent(SupportBrowser)).releaseIndex,
                     lastInitial |-> None, lastInitialBoundary |-> <<>>,
                     examined |-> <<>>, broke |-> FALSE, done |-> FALSE, result |-> Ok(None)])
    /\ UNCHANGED <<compat, dateSpec, cutoffDate, discouraged, status, prevStatus>>

\* One iteration of the loop: index >= 0 and no break so far.
WalkStep ==
    /\ last[1].op = "walk" /\ ~last[1].done /\ ~last[1].broke /\ last[1].index >= 0
    /\ \E supported \in {supportedIn(FeatureOf(last[1].sts), SupportBrowser,
                                      SupportBrowser.releases[last[1].index + 1])} :
         last' = Some(
            IF ~IsOk(supported)
            THEN [last[1] EXCEPT !.done = TRUE, !.result = Err(supported.err),
                                 !.examined = Append(@, last[1].index)]
            ELSE IF last[1].lastInitial = None /\ ValOf(supported) \in {"false", "null"}
            THEN [last[1] EXCEPT !.broke = TRUE, !.examined = Append(@, last[1].index)]
            ELSE IF last[1].lastInitial # None /\ ValOf(supported) = "null"
            THEN [last[1] EXCEPT !.broke = TRUE, !.lastInitialBoundary = <<LE>>,
                                 !.examined = Append(@, last[1].index)]
            ELSE IF last[1].lastInitial # None /\ ValOf(supported) = "false"
            THEN [last[1] EXCEPT !.broke = TRUE, !.lastInitialBoundary = <<>>,
                                 !.examined = Append(@, last[1].index)]
            ELSE [last[1] EXCEPT !.lastInitial = Some(SupportBrowser.releases[last[1].index + 1]),
                                 !.index = @ - 1,
                                 !.examined = Append(@, last[1].index)])
    /\ UNCHANGED <<compat, dateSpec, cutoffDate, discouraged, status, prevStatus>>

\* The loop is left: the entry of the browser is set.
WalkEnd ==
    /\ last[1].op = "walk" /\ ~last[1].done /\ (last[1].broke \/ last[1].index < 0)
    /\ last' = Some([last[1] EXCEPT
                        !.done = TRUE,
                        !.result = InitialSupportOf(Ok([lastInitial |-> last[1].lastInitial,
                                                        lastInitialBoundary |->
                                                            last[1].lastInitialBoundary]))])
    /\ UNCHANGED <<compat, dateSpec, cutoffDate, discouraged, status, prevStatus>>

NextWalk == WalkBegin \/ WalkStep \/ WalkEnd

\* The loop is sequential code: an iteration that can run does run.
SpecWalk == InitSupport /\ [][NextWalk]_vars /\ WF_vars(NextWalk)

\* --------------------------------------- support summaries, put together
\* Up to MaxMaps support summaries, one per compat key, are collated and the
\* keystone date of their values is looked for.
MaxMaps == 2

\* What a support summary may hold for a browser: nothing found, or one of
\* the releases up to the current one, exact or ranged.  chrome has releases
\* 1.5 and 2 of the same day, safari_ios a release 1.5 without a date.
SummaryValues(id) ==
    {None} \cup
    {ValOf(InitialSupportOf(Ok([lastInitial |-> Some(r),
                                lastInitialBoundary |-> IF ranged THEN <<LE>> ELSE <<>>]))) :
        r \in {ValOf(BrowserVersion(Browser(id, BrowserData(id, IF id = "chrome" THEN "sameday"
                                                                  ELSE "undated")), v)) :
                  v \in IF id = "chrome" THEN {V1_5, V2} ELSE {V1, V1_5}},
        ranged \in BOOLEAN}

SummaryMaps ==
    {("chrome" :> c) : c \in SummaryValues("chrome")}
    \cup {("chrome" :> c) @@ ("safari_ios" :> x) :
            c \in SummaryValues("chrome"), x \in SummaryValues("safari_ios")}

InitCollate ==
    /\ \E n \in 1..MaxMaps : \E supports \in [1..n -> SummaryMaps] :
            last = Some([op |-> "supports", supports |-> supports])
    /\ compat = <<>>
    /\ dateSpec = None
    /\ cutoffDate = [y |-> FirstYear, m |-> 1, d |-> 1]
    /\ discouraged = FALSE
    /\ status = None
    /\ prevStatus = None

\* collateSupport(supports)
CollateSupport ==
    /\ last' = Some([op |-> "collateSupport", supports |-> last[1].supports,
                     result |-> collateSupport(last[1].supports)])
    /\ UNCHANGED <<compat, dateSpec, cutoffDate, discouraged, status, prevStatus>>

\* findKeystoneDate(statuses.flatMap((s) => [...s.support.values()]))
FindKeystoneDate ==
    /\ last' = Some([op |-> "findKeystoneDate", supports |-> last[1].supports,
                     result |-> findKeystoneDate(
                                    KeystoneInput([i \in 1..Len(last[1].supports) |->
                                                      [support |-> last[1].supports[i]]]))])
    /\ UNCHANGED <<compat, dateSpec, cutoffDate, discouraged, status, prevStatus>>

NextCollate == CollateSupport \/ FindKeystoneDate

SpecCollate == InitCollate /\ [][NextCollate]_vars

\* ------------------------------------------ ancestors and version strings
\* The keys whose ancestors are asked for, and the version strings compared.
\* The category api carries a __compat record of its own in some contexts.
InitQueries ==
    /\ \E p \in AncestorScenarios :
         \E top \in {None, Some(CompatRecord("1", p.odd, "1", None))} :
            compat = (DefaultCompat :>
                        NewCompat([DataOf(p) EXCEPT !.features[KeyApi].compat = top]))
    /\ last = None
    /\ dateSpec = None
    /\ cutoffDate = [y |-> FirstYear, m |-> 1, d |-> 1]
    /\ discouraged = FALSE
    /\ status = None
    /\ prevStatus = None

WithAncestors(compatKey, c) ==
    /\ last' = Some([op |-> "withAncestors", key |-> compatKey, compat |-> c,
                     result |-> withAncestors(compatKey, compat[c].data)])
    /\ UNCHANGED <<compat, dateSpec, cutoffDate, discouraged, status, prevStatus>>

CompareVersions(a, b) ==
    /\ last' = Some([op |-> "compareVersions", a |-> a, b |-> b,
                     result |-> compareVersionsSanitized(a, b)])
    /\ UNCHANGED <<compat, dateSpec, cutoffDate, discouraged, status, prevStatus>>

VersionStrings ==
    {V1, V1 \o <<".", "0">>, V1_5, V2, V3, <<"1", "6">>, <<LE>> \o V2, <<LE, "1", "6">>,
     PreviewVersion}

AncestorKeys ==
    {KeyApi, KeyFoo, KeyBar, KeyNope, <<"api", "Nope", "bar">>, <<"nope", "Foo">>, <<"nope">>}

NextQueries ==
    \/ \E k \in AncestorKeys, c \in DOMAIN compat : WithAncestors(k, c)
    \/ \E a \in VersionStrings, b \in VersionStrings : CompareVersions(a, b)

SpecQueries == InitQueries /\ [][NextQueries]_vars

\* ------------------------------------------------------- reference notions
\* The date part and the prefix of a date string, read character by character.
DateOf(str) == PlainDateFrom(IF str[1] = LE THEN Tail(str) ELSE str)

HasPrefix(str) == str[1] = LE

MonthIndex(dt) == dt.y * 12 + dt.m

DateLeq(a, b) == PlainDateCompare(a, b) <= 0

\* Thirty calendar months after dt: two years and six months later, on the
\* same day of the month or on the last day of a shorter month.
ThirtyMonthsAfter(dt) ==
    LET y2 == IF dt.m + 6 > 12 THEN dt.y + 3 ELSE dt.y + 2
        m2 == IF dt.m + 6 > 12 THEN dt.m - 6 ELSE dt.m + 6
    IN [y |-> y2, m |-> m2, d |-> IF dt.d > DaysInMonth(y2, m2) THEN DaysInMonth(y2, m2) ELSE dt.d]

\* ------------------------------------------------------------------ claims

\* C1: every status returned by keystoneDateToStatus has baseline false
\* exactly when baseline_low_date is null, and then baseline_high_date is null
\* too; "low" has the low date set and the high date null; "high" has both
\* dates set, the low date not after the high date.
C1_StatusShape ==
    status # None =>
        LET s == status[1] IN
        /\ s.baseline \in {"false", "low", "high"}
        /\ (s.baseline = "false") <=> (s.baseline_low_date = None)
        /\ (s.baseline = "false") => (s.baseline_high_date = None)
        /\ (s.baseline = "low") => (s.baseline_low_date # None /\ s.baseline_high_date = None)
        /\ (s.baseline = "high") =>
              /\ s.baseline_low_date # None
              /\ s.baseline_high_date # None
              /\ DateLeq(DateOf(s.baseline_low_date[1]), DateOf(s.baseline_high_date[1]))

C1_Witness ==
    /\ status # None
    /\ status[1].baseline = "high"
    /\ prevStatus # None
    /\ prevStatus[1].baseline = "low"

\* C2: for a non-null keystone date d and discouraged = false the result is
\* "high" exactly when d + 30 months <= cutoff (equality included) and "low"
\* otherwise; the high date is d + 30 months when "high" and null when "low";
\* the low date is d in both cases.
C2_HighIffThirtyMonthsPassed ==
    (status # None /\ dateSpec # None /\ ~discouraged) =>
        LET s == status[1]
            d == DateOf(dateSpec[1])
            h == ThirtyMonthsAfter(d)
        IN /\ s.baseline = (IF DateLeq(h, cutoffDate) THEN "high" ELSE "low")
           /\ s.baseline_low_date # None
           /\ DateOf(s.baseline_low_date[1]) = d
           /\ (s.baseline = "high") => (s.baseline_high_date # None /\ DateOf(s.baseline_high_date[1]) = h)
           /\ (s.baseline = "low") => (s.baseline_high_date = None)

\* the cutoff is exactly the day the 30 months have passed
C2_Witness ==
    /\ status # None
    /\ dateSpec # None
    /\ ~discouraged
    /\ status[1].baseline = "high"
    /\ cutoffDate = ThirtyMonthsAfter(DateOf(dateSpec[1]))

\* C4: in every status with baseline "high" the high date is exactly 30
\* calendar months after the low date (the same day of the month, or the last
\* day of the month when the low date's day does not exist in it), and the
\* two strings both carry the range prefix or both do not.
C4_HighIsLowPlusThirtyMonths ==
    (status # None /\ status[1].baseline = "high") =>
        LET lo == DateOf(status[1].baseline_low_date[1])
            hi == DateOf(status[1].baseline_high_date[1])
        IN /\ MonthIndex(hi) - MonthIndex(lo) = 30
           /\ IsValidDate(hi)
           /\ hi.d = (IF lo.d > DaysInMonth(hi.y, hi.m) THEN DaysInMonth(hi.y, hi.m) ELSE lo.d)
           /\ HasPrefix(status[1].baseline_high_date[1]) = HasPrefix(status[1].baseline_low_date[1])

\* a ranged low date whose day of the month was clamped in the high date
C4_Witness ==
    /\ status # None
    /\ status[1].baseline = "high"
    /\ HasPrefix(status[1].baseline_low_date[1])
    /\ DateOf(status[1].baseline_high_date[1]).d < DateOf(status[1].baseline_low_date[1]).d

\* C5: with discouraged = false the result is monotone in the cutoff: a
\* result that is not "high" is followed, at a later cutoff, by the same
\* result or by "high" with the same low date, and a "high" result stays as
\* it is.  Checked between the calls on either side of every clock tick; the
\* relation is transitive, so it holds between any two cutoffs c1 <= c2.
C5_MonotoneInCutoff ==
    (status # None /\ prevStatus # None /\ ~discouraged) =>
        LET s1 == prevStatus[1]
            s2 == status[1]
        IN IF s1.baseline = "high"
           THEN s2 = s1
           ELSE \/ s2 = s1
                \/ /\ s2.baseline = "high"
                   /\ s2.baseline_low_date = s1.baseline_low_date

\* the tick on which a "low" result becomes "high"
C5_Witness ==
    /\ ~discouraged
    /\ status # None
    /\ prevStatus # None
    /\ prevStatus[1].baseline = "low"
    /\ status[1].baseline = "high"
    /\ status[1].baseline_low_date = prevStatus[1].baseline_low_date

\* ------------------------------------------- reference notions, main spec
\* The keys a call evaluates, on the data of the context it was given: the
\* given keys and, with checkAncestors, the expansion of each.
EvaluatedKeys(l) ==
    IF l.checkAncestors
    THEN ValOf(flatMapWithAncestors(l.compatKeys, compat[l.compat].data, 1, <<>>))
    ELSE l.compatKeys

\* The __compat record the data holds for a key: None when the node is not
\* there or carries none.
CompatOf(k, data) == IF k \in DOMAIN data.features THEN data.features[k].compat ELSE None

\* What the data says of the current release of a browser for a key whose
\* node carries a __compat record: "true" when a statement supports it
\* plainly, "false" or "null" otherwise.
SupportedInCurrent(k, id, data) ==
    supportedIn(Feature(k, QueryValue(k, data)),
                Browser(id, data.browsers[id]),
                ValOf(BrowserCurrent(Browser(id, data.browsers[id]))))

\* What a call returns when every read goes to the data of the context it
\* was given: the call made where that data is all there is.
OwnStatus(l, data) ==
    computeBaseline([compatKeys |-> l.compatKeys, checkAncestors |-> l.checkAncestors],
                    (DefaultCompat :> NewCompat(data)), DefaultCompat).r

NoDates(s) == s.baseline = "false" /\ s.baseline_low_date = None /\ s.baseline_high_date = None

\* The keys of the JSON object getStatus returns for a baseline value.
JsonKeys(baseline) ==
    IF baseline = "high" THEN {"baseline", "baseline_low_date", "baseline_high_date", "support"}
    ELSE IF baseline = "low" THEN {"baseline", "baseline_low_date", "support"}
    ELSE {"baseline", "support"}

\* ------------------------------------------------------ claims, main spec

\* C3: computeBaseline reports discouraged = true exactly when one of the
\* evaluated features (the given keys and, with checkAncestors, the included
\* ancestors, in the context passed in) has deprecated = true, and a
\* discouraged result has baseline false and both dates null.
C3_DiscouragedIffDeprecated ==
    (last # None /\ last[1].op = "computeBaseline" /\ IsOk(last[1].result)) =>
        LET l == last[1]
            s == ValOf(last[1].result)
            keys == EvaluatedKeys(last[1])
            data == compat[last[1].compat].data
        IN /\ s.discouraged <=>
                  \E i \in 1..Len(keys) :
                      /\ CompatOf(keys[i], data) # None
                      /\ CompatOf(keys[i], data)[1].deprecated = Some(TRUE)
           /\ s.discouraged => NoDates(s)

\* C6: the baseline and the low date computeBaseline returns are what the
\* keystone rules give for the support map it returns, one InitialSupport
\* per browser: an InitialSupport that lost the aggregation has no effect.
C6_KeystoneOfAggregatedSupport ==
    (last # None /\ last[1].op = "computeBaseline" /\ IsOk(last[1].result)) =>
        LET s == ValOf(last[1].result)
            expected == keystoneDateToStatus(findKeystoneDate(SupportValues(s.support)),
                                             CutoffDateOf(compat[last[1].compat].data),
                                             s.discouraged)
        IN /\ s.baseline = expected.baseline
           /\ s.baseline_low_date = expected.baseline_low_date

\* C7: a call of computeBaseline returns the status of the data of the
\* context it was given, and leaves every other context as it was.
C7_DependsOnlyOnPassedContext ==
    [][(last' # None /\ last'[1].op = "computeBaseline") =>
          /\ last'[1].result = OwnStatus(last'[1], compat[last'[1].compat].data)
          /\ \A x \in DOMAIN compat \ {last'[1].compat} : compat'[x] = compat[x]]_vars

\* C8: what getStatus returned is the JSON projection of what computeBaseline
\* returns for the key with checkAncestors true in the same context: the same
\* error, or an object with the keys baseline, support and the date keys
\* that "high" (both) and "low" (the low date) have, the same values, and a
\* support entry, the text, for exactly the browsers whose aggregated
\* InitialSupport is present.
C8_GetStatusIsJsonProjection ==
    (last # None /\ last[1].op = "getStatus") =>
        LET got == last[1].result
            cb == computeBaseline([compatKeys |-> last[1].compatKeys, checkAncestors |-> TRUE],
                                  compat, last[1].compat).r
        IN IF ~IsOk(cb) THEN got = cb
           ELSE /\ IsOk(got)
                /\ DOMAIN ValOf(got) = JsonKeys(ValOf(cb).baseline)
                /\ \A key \in DOMAIN ValOf(got) \ {"support"} : ValOf(got)[key] = ValOf(cb)[key]
                /\ DOMAIN ValOf(got).support =
                      {id \in DOMAIN ValOf(cb).support : ValOf(cb).support[id] # None}
                /\ \A id \in DOMAIN ValOf(got).support :
                      ValOf(got).support[id] = ValOf(cb).support[id][1].text

\* getStatus returned a "low" status, an object without the high date
C8_Witness ==
    /\ last # None
    /\ last[1].op = "getStatus"
    /\ IsOk(last[1].result)
    /\ ValOf(last[1].result).baseline = "low"
    /\ DOMAIN ValOf(last[1].result).support = CoreBrowsers

\* C9: when an evaluated feature has, for some browser, no statement that
\* plainly supports the browser's current release, computeBaseline maps the
\* browser to unknown and returns baseline false with both dates null.
C9_UnsupportedBrowserIsUnknown ==
    (last # None /\ last[1].op = "computeBaseline" /\ IsOk(last[1].result)) =>
        LET s == ValOf(last[1].result)
            keys == EvaluatedKeys(last[1])
            data == compat[last[1].compat].data
        IN \A id \in CoreBrowsers :
              (\E i \in 1..Len(keys) :
                  /\ CompatOf(keys[i], data) # None
                  /\ SupportedInCurrent(keys[i], id, data) \in {Ok("false"), Ok("null")})
              => /\ id \in DOMAIN s.support
                 /\ s.support[id] = None
                 /\ NoDates(s)

\* C10: a call given a key whose node is in the tree without a __compat
\* record signals MissingCompatRecord, from computeBaseline with
\* checkAncestors true or false and from getStatus.
C10_MissingCompatRecordSignalled ==
    last # None =>
        LET l == last[1]
            data == compat[last[1].compat].data
        IN ((\A i \in 1..Len(l.compatKeys) : l.compatKeys[i] \in DOMAIN data.features)
            /\ (\E i \in 1..Len(l.compatKeys) : CompatOf(l.compatKeys[i], data) = None))
           => l.result.err = "MissingCompatRecord"

\* The keys a call evaluates when the expansion of the given keys succeeds,
\* and none when it fails.
ExpandedKeys(l) ==
    IF l.checkAncestors /\ ~IsOk(flatMapWithAncestors(l.compatKeys, compat[l.compat].data, 1, <<>>))
    THEN <<>>
    ELSE EvaluatedKeys(l)

\* The statements the data holds for a key and a browser: none when the key
\* has no __compat record or the record no entry for the browser.
StatementsOf(k, id, data) ==
    IF CompatOf(k, data) = None \/ id \notin DOMAIN CompatOf(k, data)[1].support THEN <<>>
    ELSE IF CompatOf(k, data)[1].support[id][1] = "many" THEN CompatOf(k, data)[1].support[id][2]
    ELSE <<CompatOf(k, data)[1].support[id][2]>>

\* The version strings of the releases the data holds for a browser.
VersionsOf(id, data) ==
    {data.browsers[id].releases[i][1] : i \in 1..Len(data.browsers[id].releases)}
    \cup (IF data.browsers[id].preview_name # None THEN {PreviewVersion} ELSE {})

\* A version the statement names, the range prefix removed, is not a release.
NamesUnknownVersion(st, id, data) ==
    \/ st.version_added # None /\ ReplaceAllLE(st.version_added[1]) \notin VersionsOf(id, data)
    \/ st.version_removed # None /\ ReplaceAllLE(st.version_removed[1]) \notin VersionsOf(id, data)

\* C11: when the __compat record of an evaluated feature has no support entry
\* for a core browser, computeBaseline ends in a MissingBrowserSupport error
\* and returns no status.
C11_MissingBrowserSupportSignalled ==
    (last # None /\ last[1].op = "computeBaseline") =>
        LET keys == ExpandedKeys(last[1])
            data == compat[last[1].compat].data
        IN (\E i \in 1..Len(keys) : \E id \in CoreBrowsers :
                /\ CompatOf(keys[i], data) # None
                /\ id \notin DOMAIN CompatOf(keys[i], data)[1].support)
           => last[1].result.err = "MissingBrowserSupport"

\* C12: when a statement of an evaluated feature for a core browser names a
\* version that is not among the browser's releases, computeBaseline ends in
\* an UnknownVersion error, whatever the other statements for the browser are.
C12_UnknownVersionSignalled ==
    (last # None /\ last[1].op = "computeBaseline") =>
        LET keys == ExpandedKeys(last[1])
            data == compat[last[1].compat].data
        IN (\E i \in 1..Len(keys) : \E id \in CoreBrowsers :
                \E n \in 1..Len(StatementsOf(keys[i], id, data)) :
                    NamesUnknownVersion(StatementsOf(keys[i], id, data)[n], id, data))
           => last[1].result.err = "UnknownVersion"

\* The contexts as they are right after construction from the same data.
FreshContexts(cxs) == [c \in DOMAIN cxs |-> NewCompat(cxs[c].data)]

\* C13: whatever lookups and computeBaseline calls were made before on the
\* contexts, computeBaseline of a key returns what it returns on contexts
\* freshly built from the same data.
C13_ResultIndependentOfCaches ==
    (last # None /\ last[1].op = "computeBaseline") =>
        last[1].result = computeBaseline([compatKeys |-> <<last[1].id>>, checkAncestors |-> FALSE],
                                         FreshContexts(last[1].before), last[1].compat).r

\* computeBaseline returned a status on a context whose caches held browsers
\* and the feature before the call.
C13_Witness ==
    /\ last # None
    /\ last[1].op = "computeBaseline"
    /\ IsOk(last[1].result)
    /\ ValOf(last[1].result).baseline = "high"
    /\ "chrome" \in DOMAIN last[1].before[last[1].compat].browsers
    /\ \E k \in DOMAIN last[1].before[DefaultCompat].features : k # last[1].id

\* C14: a call never replaces or evicts an entry of a cache, and a lookup of
\* an id whose entry is in the cache returns that entry and builds nothing.
C14_CacheEntriesStable ==
    last # None =>
        /\ \A c \in DOMAIN last[1].before :
            /\ \A id \in DOMAIN last[1].before[c].browsers :
                /\ id \in DOMAIN compat[c].browsers
                /\ compat[c].browsers[id] = last[1].before[c].browsers[id]
            /\ \A id \in DOMAIN last[1].before[c].features :
                /\ id \in DOMAIN compat[c].features
                /\ compat[c].features[id] = last[1].before[c].features[id]
        /\ (last[1].op = "browser" /\ last[1].id \in DOMAIN last[1].before[last[1].compat].browsers)
            => /\ last[1].result = Ok(last[1].before[last[1].compat].browsers[last[1].id])
               /\ compat = last[1].before
        /\ (last[1].op = "feature" /\ last[1].id \in DOMAIN last[1].before[last[1].compat].features)
            => /\ last[1].result = Ok(last[1].before[last[1].compat].features[last[1].id])
               /\ compat = last[1].before
        /\ (last[1].op \in {"browser", "feature"} /\ IsOk(last[1].result))
            => LET cache == IF last[1].op = "browser" THEN compat[last[1].compat].browsers
                            ELSE compat[last[1].compat].features
               IN last[1].id \in DOMAIN cache /\ cache[last[1].id] = ValOf(last[1].result)

\* A browser is looked up again while the cache holds it and another browser.
C14_Witness ==
    /\ last # None
    /\ last[1].op = "browser"
    /\ last[1].id = "chrome"
    /\ {"chrome", "safari_ios"} \subseteq DOMAIN last[1].before[last[1].compat].browsers
    /\ IsOk(last[1].result)

\* What the statements resolve to in the n-th release of the browser.
Resolves(sts, n) ==
    ValOf(supportedIn(FeatureOf(sts), SupportBrowser, SupportBrowser.releases[n]))

\* The position of the current release among the releases of the browser.
CurrentPosition ==
    CHOOSE n \in 1..Len(SupportBrowser.releases) :
        SupportBrowser.releases[n].data.status = "current"

\* The position of the release an initial support names.
PositionOfSupport(is) == is.release.releaseIndex + 1

\* C15: the finder returns nothing exactly when the current release is not
\* plainly supported; otherwise the lowest release from which every release
\* up to the current one is plainly supported, ranged exactly when a release
\* precedes it and resolves to unknown, with the text of the range prefix (if
\* ranged) and the version.
C15_InitialSupportOfWalk ==
    (last # None /\ last[1].op = "support") =>
        /\ IsOk(last[1].result)
        /\ (ValOf(last[1].result) = None) <=> (Resolves(last[1].sts, CurrentPosition) # "true")
        /\ ValOf(last[1].result) # None =>
            LET is == ValOf(last[1].result)[1]
                r == PositionOfSupport(is)
            IN /\ is.release = SupportBrowser.releases[r]
               /\ r <= CurrentPosition
               /\ \A n \in r..CurrentPosition : Resolves(last[1].sts, n) = "true"
               /\ r > 1 => Resolves(last[1].sts, r - 1) # "true"
               /\ is.ranged <=> (r > 1 /\ Resolves(last[1].sts, r - 1) = "null")
               /\ is.text = (IF is.ranged THEN <<LE>> ELSE <<>>) \o is.release.version

\* The finder returned a ranged support below the current release.
C15_Witness ==
    /\ last # None
    /\ last[1].op = "support"
    /\ IsOk(last[1].result)
    /\ ValOf(last[1].result) # None
    /\ ValOf(last[1].result)[1].ranged
    /\ PositionOfSupport(ValOf(last[1].result)[1]) < CurrentPosition

\* C16 as stated: when the finder returns a release, no release at or after
\* it, the releases after the current one included, resolves to unsupported.
C16_NoUnsupportedAtOrAfter ==
    (last # None /\ last[1].op = "support" /\ IsOk(last[1].result)
     /\ ValOf(last[1].result) # None) =>
        \A n \in PositionOfSupport(ValOf(last[1].result)[1])..Len(SupportBrowser.releases) :
            Resolves(last[1].sts, n) \in {"true", "null"}

\* C16: when the finder returns a release, every release from it up to the
\* current release resolves to plainly supported; the releases after the
\* current one are not examined.
C16_SupportedUpToCurrent ==
    (last # None /\ last[1].op = "support" /\ IsOk(last[1].result)
     /\ ValOf(last[1].result) # None) =>
        /\ PositionOfSupport(ValOf(last[1].result)[1]) <= CurrentPosition
        /\ \A n \in 1..CurrentPosition :
            n >= PositionOfSupport(ValOf(last[1].result)[1]) => Resolves(last[1].sts, n) = "true"

\* The finder returned a release older than the current one although a
\* release after the current one resolves to unsupported.
C16_Witness ==
    /\ last # None
    /\ last[1].op = "support"
    /\ IsOk(last[1].result)
    /\ ValOf(last[1].result) # None
    /\ PositionOfSupport(ValOf(last[1].result)[1]) < CurrentPosition
    /\ \E n \in (CurrentPosition + 1)..Len(SupportBrowser.releases) :
        Resolves(last[1].sts, n) = "false"

\* The position among the releases of the browser of the release with the
\* given version, the range prefix set aside.
PositionOfVersion(v) ==
    CHOOSE n \in 1..Len(SupportBrowser.releases) :
        SupportBrowser.releases[n].version = ReplaceAllLE(v)

\* The statements whose version_added is ranged and names the version.
RangedStatementsNaming(sts, version) ==
    {i \in 1..Len(sts) : /\ isRangedVersion(sts[i].version_added)
                         /\ ReplaceAllLE(sts[i].version_added[1]) = version}

\* C17 as stated: the initial support is ranged exactly when the release it
\* names is the version of a ranged version_added statement of the browser.
C17_RangedIffRangedStatement ==
    (last # None /\ last[1].op = "support" /\ IsOk(last[1].result)
     /\ ValOf(last[1].result) # None) =>
        (ValOf(last[1].result)[1].ranged
            <=> RangedStatementsNaming(last[1].sts, ValOf(last[1].result)[1].release.version) # {})

\* C17: with one statement for the browser, whose version_removed (if any)
\* names no release before the one version_added names, the initial support
\* names the version of version_added and is ranged exactly when version_added
\* is ranged and names a release other than the first, the text then being
\* the range prefix and the version; with several statements a ranged initial
\* support names a release that has a predecessor, with the prefixed text.
C17_RangedOfStatements ==
    (last # None /\ last[1].op = "support" /\ IsOk(last[1].result)
     /\ ValOf(last[1].result) # None) =>
        LET is == ValOf(last[1].result)[1]
            sts == last[1].sts
        IN /\ ((Len(sts) = 1) /\ ((sts[1].version_removed # None) =>
                    (PositionOfVersion(sts[1].version_removed[1])
                        >= PositionOfVersion(sts[1].version_added[1])))) =>
                /\ is.release.version = ReplaceAllLE(sts[1].version_added[1])
                /\ is.ranged <=> (isRangedVersion(sts[1].version_added) /\ is.release.releaseIndex > 0)
                /\ is.ranged => is.text = sts[1].version_added[1]
                /\ isFixedVersion(sts[1].version_added) => is.text = sts[1].version_added[1]
           /\ is.ranged => /\ is.release.releaseIndex > 0
                           /\ is.text = <<LE>> \o is.release.version
           /\ ~is.ranged => is.text = is.release.version

\* The finder returned a ranged support for a single ranged statement.
C17_Witness ==
    /\ last # None
    /\ last[1].op = "support"
    /\ Len(last[1].sts) = 1
    /\ isRangedVersion(last[1].sts[1].version_added)
    /\ IsOk(last[1].result)
    /\ ValOf(last[1].result) # None
    /\ ValOf(last[1].result)[1].ranged
    /\ ValOf(last[1].result)[1].text = last[1].sts[1].version_added[1]

\* C20: for a statement whose version_removed is absent or exact, a release
\* from the start on and before the end (if any) is supported with the
\* qualifications of the statement; a release before the start is unknown
\* when version_added is ranged and unsupported when it is exact; a release
\* at or after the end is unsupported.
C20_StartToEndResolution ==
    (last # None /\ last[1].op = "supportedInDetails"
     /\ last[1].st.version_added # None /\ ~isRangedVersion(last[1].st.version_removed)) =>
        LET st == last[1].st
            n == last[1].release.releaseIndex + 1
            start == PositionOfVersion(st.version_added[1])
            inRange == /\ start <= n
                       /\ st.version_removed # None => n < PositionOfVersion(st.version_removed[1])
        IN /\ IsOk(last[1].result)
           /\ ValOf(last[1].result).supported =
                (IF inRange THEN "true"
                 ELSE IF n < start /\ isRangedVersion(st.version_added) THEN "null"
                 ELSE "false")
           /\ inRange => ValOf(last[1].result).qualifications = statementToQualifications(st)

\* The release a statement names in its exact version_removed was resolved,
\* the statement supporting the release before it.
C20_Witness ==
    /\ last # None
    /\ last[1].op = "supportedInDetails"
    /\ last[1].st.version_added # None
    /\ isFixedVersion(last[1].st.version_removed)
    /\ last[1].release.version = last[1].st.version_removed[1]
    /\ PositionOfVersion(last[1].st.version_added[1]) < last[1].release.releaseIndex + 1
    /\ ValOf(last[1].result) = Unsupported

\* The values the summaries hold, for all browsers or for one.
AllValues(supports) ==
    UNION {{supports[i][id] : id \in DOMAIN supports[i]} : i \in 1..Len(supports)}

ValuesOf(supports, id) ==
    {supports[i][id] : i \in {j \in 1..Len(supports) : id \in DOMAIN supports[j]}}

\* The day of a release date string, counted so that later days are greater.
DayOrdinal(str) == MonthIndex(DateOf(str)) * 31 + DateOf(str).d

\* C18: the keystone is null when a value is unknown or names a release with
\* no date; otherwise it is the latest release date of the values, with the
\* range prefix exactly when every value of that date is ranged.
C18_KeystoneIsLatestExactFirst ==
    (last # None /\ last[1].op = "findKeystoneDate") =>
        LET vals == AllValues(last[1].supports)
        IN IF None \in vals \/ \E v \in vals : v[1].release.data.release_date = None
           THEN last[1].result = None
           ELSE /\ last[1].result # None
                /\ \E v \in vals :
                    v[1].release.data.release_date[1] = PlainDateToString(DateOf(last[1].result[1]))
                /\ \A v \in vals :
                    DayOrdinal(v[1].release.data.release_date[1]) <= DayOrdinal(last[1].result[1])
                /\ HasPrefix(last[1].result[1]) <=>
                    \A v \in vals :
                        DayOrdinal(v[1].release.data.release_date[1]) = DayOrdinal(last[1].result[1])
                            => v[1].ranged

\* The latest date is the date of an exact and of a ranged value, and the
\* keystone has no prefix.
C18_Witness ==
    /\ last # None
    /\ last[1].op = "findKeystoneDate"
    /\ last[1].result # None
    /\ ~HasPrefix(last[1].result[1])
    /\ \E v, w \in AllValues(last[1].supports) :
        /\ v[1].ranged /\ ~w[1].ranged
        /\ v[1].release # w[1].release
        /\ DayOrdinal(v[1].release.data.release_date[1]) = DayOrdinal(last[1].result[1])
        /\ DayOrdinal(w[1].release.data.release_date[1]) = DayOrdinal(last[1].result[1])

\* C19: the collated map has the browsers of all the summaries; a browser is
\* unknown when a summary has it unknown; otherwise its value is one of the
\* summaries' values, of a release that none of them exceeds, exact when a
\* value of that release is exact.
C19_CollatedIsMostRecent ==
    (last # None /\ last[1].op = "collateSupport") =>
        /\ DOMAIN last[1].result = UNION {DOMAIN last[1].supports[i] : i \in 1..Len(last[1].supports)}
        /\ \A id \in DOMAIN last[1].result :
            LET vals == ValuesOf(last[1].supports, id)
                res == last[1].result[id]
            IN IF None \in vals THEN res = None
               ELSE /\ res \in vals
                    /\ \A v \in vals : v[1].release.releaseIndex <= res[1].release.releaseIndex
                    /\ (\E v \in vals : v[1].release = res[1].release /\ ~v[1].ranged)
                        => ~res[1].ranged

\* A browser held by some of the summaries only is collated, and for another
\* the most recent release is held exact and ranged.
C19_Witness ==
    /\ last # None
    /\ last[1].op = "collateSupport"
    /\ \E i \in 1..Len(last[1].supports) : "safari_ios" \notin DOMAIN last[1].supports[i]
    /\ "safari_ios" \in DOMAIN last[1].result
    /\ last[1].result["chrome"] # None
    /\ ~last[1].result["chrome"][1].ranged
    /\ \E v \in ValuesOf(last[1].supports, "chrome") :
        v[1].ranged /\ v[1].release = last[1].result["chrome"][1].release

\* C21: for a statement whose version_removed is ranged, only the release
\* version_added names is supported; every other release from the one
\* version_removed names on is unsupported; a release before the supported one
\* is unknown when version_added is ranged and unsupported when it is exact;
\* a release between the two is unknown.
C21_RangedRemovalResolution ==
    (last # None /\ last[1].op = "supportedInDetails"
     /\ last[1].st.version_added # None /\ isRangedVersion(last[1].st.version_removed)) =>
        LET st == last[1].st
            n == last[1].release.releaseIndex + 1
            S == PositionOfVersion(st.version_added[1])
            U == PositionOfVersion(st.version_removed[1])
        IN /\ IsOk(last[1].result)
           /\ ValOf(last[1].result).supported =
                (IF n = S THEN "true"
                 ELSE IF n >= U THEN "false"
                 ELSE IF n < S THEN (IF isRangedVersion(st.version_added) THEN "null" ELSE "false")
                 ELSE "null")
           /\ n = S => ValOf(last[1].result).qualifications = statementToQualifications(st)

\* A release before the supported one of a statement with an exact
\* version_added and a ranged version_removed was resolved.
C21_Witness ==
    /\ last # None
    /\ last[1].op = "supportedInDetails"
    /\ isFixedVersion(last[1].st.version_added)
    /\ isRangedVersion(last[1].st.version_removed)
    /\ last[1].release.releaseIndex + 1 < PositionOfVersion(last[1].st.version_added[1])
    /\ ValOf(last[1].result) = Unsupported

\* Neither version of the statement has the range prefix.
Unranged(st) == ~isRangedVersion(st.version_added) /\ ~isRangedVersion(st.version_removed)

\* C22: a statement without a ranged version resolves to supported or
\* unsupported in every release, and a feature whose statements for the
\* browser are all without ranged versions never resolves to unknown; unknown
\* is a value that is returned, never an error.
C22_UnknownOnlyThroughRanges ==
    /\ (last # None /\ last[1].op = "supportedInDetails") =>
        /\ IsOk(last[1].result)
        /\ Unranged(last[1].st) => ValOf(last[1].result).supported \in {"true", "false"}
    /\ (last # None /\ last[1].op = "supportedIn") =>
        /\ IsOk(last[1].result)
        /\ (\A i \in 1..Len(last[1].sts) : Unranged(last[1].sts[i]))
            => ValOf(last[1].result) \in {"true", "false"}

\* A feature with several statements, none with a ranged version, one of them
\* removed before the release, was resolved as unsupported in the release.
C22_Witness ==
    /\ last # None
    /\ last[1].op = "supportedIn"
    /\ Len(last[1].sts) > 1
    /\ \A i \in 1..Len(last[1].sts) : Unranged(last[1].sts[i])
    /\ \E i \in 1..Len(last[1].sts) : last[1].sts[i].version_removed # None
    /\ last[1].result = Ok("false")

\* The statement has none of the qualifications.
Unqualified(st) ==
    /\ st.prefix = None
    /\ st.alternative_name = None
    /\ st.flags = <<>>
    /\ ~st.partial_implementation

\* What the i-th statement resolves to in the release.
DetailsOf(sts, i, release) == ValOf(supportedInDetails(sts[i], SupportBrowser, release)).supported

\* C23: supportedIn is true exactly when a statement without qualifications
\* resolves to supported in the release; null exactly when there is none but
\* a statement resolves to unknown; false otherwise.
C23_SupportedInOfStatements ==
    (last # None /\ last[1].op = "supportedIn") =>
        LET sts == last[1].sts
            plain == \E i \in 1..Len(sts) :
                        DetailsOf(sts, i, last[1].release) = "true" /\ Unqualified(sts[i])
            unknown == \E i \in 1..Len(sts) : DetailsOf(sts, i, last[1].release) = "null"
        IN last[1].result = Ok(IF plain THEN "true" ELSE IF unknown THEN "null" ELSE "false")

\* A feature whose only supporting statement in the release has flags, with
\* another statement unknown there, resolves to unknown.
C23_Witness ==
    /\ last # None
    /\ last[1].op = "supportedIn"
    /\ last[1].result = Ok("null")
    /\ \E i \in 1..Len(last[1].sts) :
        /\ last[1].sts[i].flags # <<>>
        /\ DetailsOf(last[1].sts, i, last[1].release) = "true"

\* C30: for a statement whose version_removed is absent or exact, the
\* releases supportedBy lists are the releases supportedInDetails resolves to
\* supported, once each, with the same qualifications; for a statement with
\* version_added false there are none and every release is unsupported.
C30_SupportedByAgreesWithDetails ==
    (last # None /\ last[1].op = "supportedBy" /\ ~isRangedVersion(last[1].st.version_removed)) =>
        /\ IsOk(last[1].result)
        /\ \A n \in 1..Len(SupportBrowser.releases) :
            LET details == ValOf(supportedInDetails(last[1].st, SupportBrowser,
                                                    SupportBrowser.releases[n]))
                listed == {k \in 1..Len(ValOf(last[1].result)) :
                              ValOf(last[1].result)[k].release = SupportBrowser.releases[n]}
            IN /\ (listed # {}) <=> (details.supported = "true")
               /\ Cardinality(listed) <= 1
               /\ \A k \in listed : ValOf(last[1].result)[k].qualifications = details.qualifications
               /\ last[1].st.version_added = None => details = Unsupported
        /\ last[1].st.version_added = None => ValOf(last[1].result) = <<>>

\* supportedBy listed some releases of a statement with an exact
\* version_removed, and not the release of the removal.
C30_Witness ==
    /\ last # None
    /\ last[1].op = "supportedBy"
    /\ isFixedVersion(last[1].st.version_removed)
    /\ IsOk(last[1].result)
    /\ Len(ValOf(last[1].result)) > 1
    /\ \A k \in 1..Len(ValOf(last[1].result)) :
        ValOf(last[1].result)[k].release.version # last[1].st.version_removed[1]

\* The statements, those that remove the feature in the beta release (a
\* release above the current one) no longer removing it.
WithoutBetaRemoval(sts) ==
    [i \in 1..Len(sts) |-> IF sts[i].version_removed = Some(V3)
                           THEN [sts[i] EXCEPT !.version_removed = None]
                           ELSE sts[i]]

\* The indices the walk has examined go down one by one from the index of the
\* current release, and the release found so far is at or below it.
WalkDescends ==
    (last # None /\ last[1].op = "walk") =>
        /\ Len(last[1].examined) <= CurrentPosition
        /\ \A k \in 1..Len(last[1].examined) : last[1].examined[k] = CurrentPosition - k
        /\ last[1].lastInitial # None => PositionOfSupport([release |-> last[1].lastInitial[1]])
                                            <= CurrentPosition
        /\ last[1].done =>
            /\ Len(last[1].examined) >= 1
            /\ IsOk(last[1].result)
            /\ ValOf(last[1].result) # None =>
                    PositionOfSupport(ValOf(last[1].result)[1]) <= CurrentPosition
            /\ last[1].result = supportOfBrowser(FeatureOf(last[1].sts), SupportBrowser)
            /\ last[1].result = supportOfBrowser(FeatureOf(WithoutBetaRemoval(last[1].sts)),
                                                 SupportBrowser)

\* C27: the walk ends; it examines the indices from the current release's
\* down, one by one, never a release above the current one; what it returns is
\* at or below the current release and is the same when the support of the
\* releases above the current one is changed.
C27_WalkEndsBelowCurrent ==
    /\ []WalkDescends
    /\ <>(last # None /\ last[1].op = "walk" /\ last[1].done)

\* The walk has ended at index 0 after examining every release up to the
\* current one, for statements that remove the feature in the beta release.
C27_Witness ==
    /\ last # None
    /\ last[1].op = "walk"
    /\ last[1].done
    /\ Len(last[1].examined) = CurrentPosition
    /\ ValOf(last[1].result) # None
    /\ WithoutBetaRemoval(last[1].sts) # last[1].sts

\* The orders in which n maps can be given.
Orders(n) == {f \in [1..n -> 1..n] : \A i, j \in 1..n : f[i] = f[j] => i = j}

\* C28: collateSupport returns the same entry for every browser in whatever
\* order the support maps are given.
C28_CollateIgnoresOrder ==
    (last # None /\ last[1].op = "collateSupport") =>
        \A f \in Orders(Len(last[1].supports)) :
            collateSupport([i \in 1..Len(last[1].supports) |-> last[1].supports[f[i]]])
                = last[1].result

\* Maps that differ in the release and in the range of a browser were
\* collated, neither of them unknown.
C28_Witness ==
    /\ last # None
    /\ last[1].op = "collateSupport"
    /\ Len(last[1].supports) > 1
    /\ last[1].result["chrome"] # None
    /\ \E i, j \in 1..Len(last[1].supports) :
        /\ i < j
        /\ last[1].supports[i]["chrome"][1].release # last[1].supports[j]["chrome"][1].release
        /\ last[1].supports[i]["chrome"][1].ranged # last[1].supports[j]["chrome"][1].ranged
        /\ last[1].result["chrome"] = last[1].supports[i]["chrome"]

\* C29: a lookup that fails leaves every context as it was, both caches
\* included, and fails as the same lookup fails on a context freshly built
\* from the same data.
C29_FailedLookupChangesNothing ==
    (last # None /\ last[1].op \in {"browser", "feature"} /\ ~IsOk(last[1].result)) =>
        /\ compat = last[1].before
        /\ last[1].op = "browser" => last[1].id \notin DOMAIN compat[last[1].compat].browsers
        /\ last[1].op = "feature" => last[1].id \notin DOMAIN compat[last[1].compat].features
        /\ last[1].result =
            (IF last[1].op = "browser"
             THEN browser(last[1].id, NewCompat(compat[last[1].compat].data)).r
             ELSE feature(last[1].id, NewCompat(compat[last[1].compat].data)).r)

\* The lookup of an object that is not feature data failed on a context whose
\* caches held a browser and a feature.
C29_Witness ==
    /\ last # None
    /\ last[1].op = "feature"
    /\ last[1].result = Err("NotAFeature")
    /\ DOMAIN last[1].before[last[1].compat].browsers # {}
    /\ DOMAIN last[1].before[last[1].compat].features # {}

\* The sign of an integer.
Sign(x) == IF x > 0 THEN 1 ELSE IF x < 0 THEN -1 ELSE 0

\* A version string made of digits and dots, which the version comparison
\* accepts; the version of the preview release is not one.
IsNumericVersion(v) ==
    \A k \in 1..Len(v) : v[k] = "." \/ \E d \in 1..Len(DigitChar) : DigitChar[d] = v[k]

\* The sign of the version comparison, or None when a version is not numeric.
VersionSign(a, b) ==
    IF IsNumericVersion(a) /\ IsNumericVersion(b) THEN Some(Sign(compareVersions(a, b))) ELSE None

\* The releases of a browser hold their positions and the browser.
ReleasesIndexed(b) ==
    \A i \in 1..Len(b.releases) :
        b.releases[i].releaseIndex = i - 1 /\ b.releases[i].browser = b.id

\* The preview release, when declared, is the last one and the only one.
PreviewLast(b) ==
    /\ b.data.preview_name # None =>
        /\ b.releases[Len(b.releases)].version = PreviewVersion
        /\ b.releases[Len(b.releases)].data.status = "nightly"
    /\ \A i \in 1..Len(b.releases) :
        b.releases[i].version = PreviewVersion
            => (i = Len(b.releases) /\ b.data.preview_name # None)

\* C25 as stated: in a constructed Browser the releases hold their positions
\* and the browser, the preview release is last, and Release.compare of any
\* two releases has the sign of the version comparison of their versions.
C25_CompareIsVersionOrder ==
    (last # None /\ last[1].op = "browser" /\ IsOk(last[1].result)) =>
        LET b == ValOf(last[1].result)
        IN /\ ReleasesIndexed(b)
           /\ PreviewLast(b)
           /\ \A i, j \in 1..Len(b.releases) :
                VersionSign(b.releases[i].version, b.releases[j].version)
                    = Some(Sign(ValOf(ReleaseCompare(b.releases[i], b.releases[j]))))

\* C25: in a constructed Browser the releases hold their positions and the
\* browser, the preview release is last, Release.compare orders the releases
\* by position, and for two releases other than the preview release it never
\* has the sign opposite to the version comparison and has its sign when the
\* versions do not compare equal.
C25_CompareIsPositionOrder ==
    (last # None /\ last[1].op = "browser" /\ IsOk(last[1].result)) =>
        LET b == ValOf(last[1].result)
        IN /\ ReleasesIndexed(b)
           /\ PreviewLast(b)
           /\ \A i, j \in 1..Len(b.releases) :
                /\ Sign(ValOf(ReleaseCompare(b.releases[i], b.releases[j]))) = Sign(i - j)
                /\ (b.releases[i].version # PreviewVersion /\ b.releases[j].version # PreviewVersion)
                    => \/ VersionSign(b.releases[i].version, b.releases[j].version) = Some(0)
                       \/ VersionSign(b.releases[i].version, b.releases[j].version)
                            = Some(Sign(ValOf(ReleaseCompare(b.releases[i], b.releases[j]))))

\* A browser with a preview release was constructed from releases that the
\* data lists out of order.
C25_Witness ==
    /\ last # None
    /\ last[1].op = "browser"
    /\ IsOk(last[1].result)
    /\ ValOf(last[1].result).data.preview_name # None
    /\ \E k \in 1..(Len(ValOf(last[1].result).data.releases) - 1) :
        compareVersions(ValOf(last[1].result).data.releases[k][1],
                        ValOf(last[1].result).data.releases[k + 1][1]) > 0

\* --------------------------------- claims, ancestors and version strings
\* The node at a path carries a __compat record.
CarriesCompat(path, data) ==
    path \in DOMAIN data.features /\ data.features[path].compat # None

C26_ComparatorIsAnOrder ==
    (last # None /\ last[1].op = "compareVersions") =>
        /\ compareVersionsSanitized(last[1].b, last[1].a) = -last[1].result
        /\ \A c \in VersionStrings :
              (last[1].result <= 0 /\ compareVersionsSanitized(last[1].b, c) <= 0)
                  => (compareVersionsSanitized(last[1].a, c) <= 0)

====
